---- MODULE Spec2Model ----
(***************************************************************************)
(* A model of the metadata cleaner's orchestration engine:                 *)
(*   core/enums.py     FileType.from_extension and the capability groups   *)
(*   core/utils.py     create_backup, verify_file_integrity, ...           *)
(*   core/result.py    CleaningResult, BatchCleaningResult.add_result      *)
(*   core/cleaner.py   MetadataCleaner.clean_file / clean_files /          *)
(*                     clean_folder / _get_cleaner                         *)
(*   cleaners/*.py     BaseCleaner, OfficeCleaner, TextCleaner             *)
(*                                                                         *)
(* Python objects that are shared by reference (the dict and the two lists *)
(* of every cleaner, and the fields of a CleaningResult that alias them)   *)
(* live in `heap`; a field holding such an object holds its address.       *)
(* Strings that the code converts character by character (extensions) are  *)
(* sequences of one-character strings.                                     *)
(***************************************************************************)
EXTENDS Integers, Sequences, FiniteSets, TLC

VARIABLES
    level,          \* MetadataCleaner.level
    backup,         \* MetadataCleaner.backup
    verify,         \* MetadataCleaner.verify
    backup_dir,     \* MetadataCleaner.backup_dir (None or Some(dir))
    cleaners,       \* MetadataCleaner.cleaners: category -> the cleaner's fields
    heap,           \* address -> value of every shared dict / list
    fs,             \* the file system: path -> file
    now,            \* the wall clock, in ticks
    tasks,          \* the clean_file invocations made so far
    orch,           \* the thread that called the entry point
    batch_result,   \* the BatchCleaningResult of the running batch
    returned,       \* what direct clean_file calls handed back to the caller
    faults          \* how many more writes the environment may make fail

vars == <<level, backup, verify, backup_dir, cleaners, heap, fs, now, tasks,
          orch, batch_result, returned, faults>>

----------------------------------------------------------------------------
(* Bounds of the model.                                                    *)

MaxCalls == 2
MaxBatch == 3
MaxWorkers == 2
MaxClock == 2
MaxFaults == 1

----------------------------------------------------------------------------
(* Optional values and small helpers.                                      *)

None == <<>>
Some(v) == <<v>>
IsSome(o) == o # <<>>
The(o) == o[1]

Range(s) == {s[i] : i \in DOMAIN s}

RECURSIVE SumOver(_, _)
SumOver(S, f) ==
    IF S = {} THEN 0
    ELSE LET x == CHOOSE y \in S : TRUE
         IN f[x] + SumOver(S \ {x}, f)

----------------------------------------------------------------------------
(* str.lower() and str.lstrip('.') on character sequences.                 *)

LowerChar(c) ==
    CASE c = "A" -> "a" [] c = "B" -> "b" [] c = "C" -> "c" [] c = "D" -> "d"
      [] c = "E" -> "e" [] c = "F" -> "f" [] c = "G" -> "g" [] c = "H" -> "h"
      [] c = "I" -> "i" [] c = "J" -> "j" [] c = "K" -> "k" [] c = "L" -> "l"
      [] c = "M" -> "m" [] c = "N" -> "n" [] c = "O" -> "o" [] c = "P" -> "p"
      [] c = "Q" -> "q" [] c = "R" -> "r" [] c = "S" -> "s" [] c = "T" -> "t"
      [] c = "U" -> "u" [] c = "V" -> "v" [] c = "W" -> "w" [] c = "X" -> "x"
      [] c = "Y" -> "y" [] c = "Z" -> "z" [] OTHER -> c

Lower(s) == [i \in DOMAIN s |-> LowerChar(s[i])]

RECURSIVE LStripDot(_)
LStripDot(s) ==
    IF s # <<>> /\ Head(s) = "." THEN LStripDot(Tail(s)) ELSE s

----------------------------------------------------------------------------
(* core/enums.py                                                           *)

BASIC == "BASIC"
DEEP == "DEEP"
PARANOID == "PARANOID"
CleaningLevel == {BASIC, DEEP, PARANOID}

PDF == <<"p","d","f">>
DOCX == <<"d","o","c","x">>
XLSX == <<"x","l","s","x">>
PPTX == <<"p","p","t","x">>
ODT == <<"o","d","t">>
ODS == <<"o","d","s">>
ODP == <<"o","d","p">>
RTF == <<"r","t","f">>
TXT == <<"t","x","t">>
\* Images
ImageTypes ==
    << <<"j","p","e","g">>, <<"j","p","g">>, <<"p","n","g">>, <<"t","i","f","f">>,
       <<"t","i","f">>, <<"g","i","f">>, <<"b","m","p">>, <<"w","e","b","p">> >>
\* Audio
AudioTypes ==
    << <<"m","p","3">>, <<"f","l","a","c">>, <<"w","a","v">>, <<"m","4","a">>,
       <<"o","g","g">> >>
\* Video
VideoTypes ==
    << <<"m","p","4">>, <<"a","v","i">>, <<"m","k","v">>, <<"m","o","v">>,
       <<"w","m","v">> >>
UNKNOWN == <<"u","n","k","n","o","w","n">>

\* The members of the enum, in declaration order; a member is its value.
FileType ==
    <<PDF, DOCX, XLSX, PPTX, ODT, ODS, ODP, RTF, TXT>>
        \o ImageTypes \o AudioTypes \o VideoTypes \o <<UNKNOWN>>

\* A from_extension that compares the extension as it is written.
from_extension_cased(ext) ==
    LET e == LStripDot(ext)
    IN IF e \in Range(FileType) THEN e ELSE UNKNOWN

\* The first member whose value equals the normalised extension, else UNKNOWN;
\* a member being its value, the member found is the normalised extension.
from_extension(ext) ==
    LET e == LStripDot(Lower(ext))
    IN IF e \in Range(FileType) THEN e ELSE UNKNOWN

is_document(ft) == ft \in {PDF, DOCX, XLSX, PPTX, ODT, ODS, ODP, RTF, TXT}
is_image(ft) == ft \in Range(ImageTypes)
is_audio(ft) == ft \in Range(AudioTypes)
is_video(ft) == ft \in Range(VideoTypes)

----------------------------------------------------------------------------
(* Paths.  A path is [dir, stem, suffix]: what pathlib's .parent, .stem    *)
(* and .suffix give.  A stem is a sequence of name pieces, so that the     *)
(* backup's f"{stem}_{timestamp}" is the stem with the stamp appended.     *)

Path(d, stem, suffix) == [dir |-> d, stem |-> stem, suffix |-> suffix]

\* An is_supported_file that takes every file for supported.
is_supported_file_any(file_path) == TRUE

\* core/utils.py is_supported_file
is_supported_file(file_path) ==
    LET ext == LStripDot(Lower(file_path.suffix))
        file_type == from_extension(ext)
    IN file_type # UNKNOWN

----------------------------------------------------------------------------
(* File contents.  A file is [content, readable]; a content is either raw  *)
(* bytes (`data`, a character sequence) or a zip archive (`parts`, part    *)
(* name -> blob).  A blob is one record type for every kind of part.       *)

EmptyFn == [x \in {} |-> ""]

Blob(type, fields, overrides, rsid, body) ==
    [type |-> type, fields |-> fields, overrides |-> overrides,
     rsid |-> rsid, body |-> body]

XmlBlob(fields) == Blob("xml", fields, {}, FALSE, "")
ManifestBlob(overrides) == Blob("manifest", EmptyFn, overrides, FALSE, "")
ContentBlob(body, rsid) == Blob("content", EmptyFn, {}, rsid, body)
OpaqueBlob(body) == Blob("opaque", EmptyFn, {}, FALSE, body)

ZipContent(parts) == [kind |-> "zip", parts |-> parts, data |-> <<>>]
RawContent(data) == [kind |-> "raw", parts |-> EmptyFn, data |-> data]

File(content, readable) == [content |-> content, readable |-> readable]

Exists(f, p) == p \in DOMAIN f

\* f with the file at p replaced (or created); permissions of an existing
\* file are kept, a new file is readable.
WriteFile(f, p, content) ==
    LET r == IF p \in DOMAIN f THEN f[p].readable ELSE TRUE
    IN [q \in DOMAIN f \cup {p} |-> IF q = p THEN File(content, r) ELSE f[q]]

BlobSize(b) ==
    CASE b.type = "xml" ->
            1 + Cardinality({t \in DOMAIN b.fields : b.fields[t] # ""})
      [] b.type = "manifest" -> 1 + Cardinality(b.overrides)
      [] b.type = "content" -> 1 + (IF b.rsid THEN 1 ELSE 0)
      [] OTHER -> 1

\* The byte count of a content: an archive is its directory record plus its
\* parts, so an archive without parts is not an empty file.
ContentSize(c) ==
    IF c.kind = "raw" THEN Len(c.data)
    ELSE 1 + SumOver(DOMAIN c.parts, [n \in DOMAIN c.parts |-> BlobSize(c.parts[n])])

\* core/utils.py get_file_size: stat() needs no read permission.
get_file_size(f, p) == ContentSize(f[p].content)

\* core/utils.py calculate_file_hash: the digest identifies the content.
calculate_file_hash(f, p) == f[p].content

\* core/utils.py verify_file_integrity
verify_file_integrity(f, original_path, cleaned_path) ==
    IF ~Exists(f, cleaned_path) THEN FALSE
    ELSE IF get_file_size(f, cleaned_path) = 0 THEN FALSE
    ELSE TRUE

----------------------------------------------------------------------------
(* cleaners/office_cleaner.py, as functions of the archive.                *)

CORE == "docProps/core.xml"
APP == "docProps/app.xml"
CUSTOM == "docProps/custom.xml"
MANIFEST == "[Content_Types].xml"
DOCUMENT == "word/document.xml"
MEDIA == "word/media/image1.png"

\* OfficeCleaner.clean: metadata_files, in the order the loop visits them.
metadata_files == <<CORE, APP, CUSTOM>>

\* OfficeCleaner._update_content_types: metadata_parts (manifest PartNames).
metadata_parts == {"/docProps/core.xml", "/docProps/app.xml", "/docProps/custom.xml"}

\* The manifest PartName of an archive part: the part's name after a slash.
PartName(part) ==
    CASE part = CORE -> "/docProps/core.xml"
      [] part = APP -> "/docProps/app.xml"
      [] part = CUSTOM -> "/docProps/custom.xml"
      [] part = DOCUMENT -> "/word/document.xml"
      [] part = "xl/workbook.xml" -> "/xl/workbook.xml"
      [] part = "ppt/presentation.xml" -> "/ppt/presentation.xml"
      [] part = "content.xml" -> "/content.xml"
      [] part = MEDIA -> "/word/media/image1.png"
      [] OTHER -> "/[Content_Types].xml"

\* OfficeCleaner._clean_xml_metadata: sensitive_tags, as written.
sensitive_tags ==
    {"creator", "lastModifiedBy", "created", "modified",
     "company", "manager", "lastPrinted", "revision"}

\* str.lower() of an element tag.
TagLower(tag) ==
    CASE tag = "lastModifiedBy" -> "lastmodifiedby"
      [] tag = "lastPrinted" -> "lastprinted"
      [] tag = "Company" -> "company"
      [] tag = "Manager" -> "manager"
      [] tag = "Application" -> "application"
      [] OTHER -> tag

\* elem.text[:100]: of a text longer than 100 characters its first 100.
Trunc100(text) == IF text = "Alice...(120 chars)" THEN "Alice...(100 chars)" ELSE text

\* not (elem.text and elem.text.strip())
IsBlankText(text) == text \in {"", " "}

Merge(f, g) == [k \in DOMAIN f \cup DOMAIN g |-> IF k \in DOMAIN f THEN f[k] ELSE g[k]]

\* The entries extract_metadata adds for one properties part.
PartEntries(prefix, blob) ==
    LET tags == {t \in DOMAIN blob.fields : ~IsBlankText(blob.fields[t])}
    IN [k \in {<<prefix, t>> : t \in tags} |-> Trunc100(blob.fields[k[2]])]

\* OfficeCleaner.extract_metadata: what was gathered before the first
\* exception (a missing or unreadable file, no zip, an unparsable part).
OfficeExtractMetadata(f, file_path) ==
    IF ~Exists(f, file_path) THEN EmptyFn
    ELSE IF ~f[file_path].readable \/ f[file_path].content.kind # "zip" THEN EmptyFn
    ELSE LET parts == f[file_path].content.parts
             hasCore == CORE \in DOMAIN parts
             coreOk == hasCore => parts[CORE].type = "xml"
             hasApp == APP \in DOMAIN parts
             appOk == hasApp => parts[APP].type = "xml"
             core == IF hasCore /\ coreOk THEN PartEntries("Core", parts[CORE]) ELSE EmptyFn
             app == IF hasApp /\ appOk THEN PartEntries("App", parts[APP]) ELSE EmptyFn
             custom == IF CUSTOM \in DOMAIN parts
                       THEN [k \in {<<"Custom", "">>} |-> "Present"] ELSE EmptyFn
         IN IF ~coreOk THEN EmptyFn
            ELSE IF ~appOk THEN core
            ELSE Merge(Merge(core, app), custom)

\* OfficeCleaner._clean_xml_metadata on one extracted part; a part that does
\* not parse is left as it is (the exception is logged and swallowed).
CleanXmlMetadata(blob) ==
    IF blob.type # "xml" THEN blob
    ELSE [blob EXCEPT !.fields =
            [t \in DOMAIN blob.fields |->
                IF TagLower(t) \in sensitive_tags THEN "" ELSE blob.fields[t]]]

Without(parts, gone) == [n \in DOMAIN parts \ gone |-> parts[n]]

\* A loop over metadata_files that unlinks the parts at every level.
CleanMetadataFilesUnlinking(lvl, parts) == Without(parts, Range(metadata_files))

\* OfficeCleaner.clean lines 81-90: the loop over metadata_files.
CleanMetadataFiles(lvl, parts) ==
    IF lvl = BASIC
    THEN [n \in DOMAIN parts |->
            IF n \in Range(metadata_files) THEN CleanXmlMetadata(parts[n]) ELSE parts[n]]
    ELSE Without(parts, Range(metadata_files))

\* OfficeCleaner._clean_content_files: the parts chosen by the suffix as
\* written (file_ext is compared without lower()).
ContentFiles(file_ext) ==
    IF file_ext \in {<<".">> \o DOCX, <<".">> \o ODT} THEN {DOCUMENT, "content.xml"}
    ELSE IF file_ext \in {<<".">> \o XLSX, <<".">> \o ODS} THEN {"xl/workbook.xml", "content.xml"}
    ELSE IF file_ext \in {<<".">> \o PPTX, <<".">> \o ODP} THEN {"ppt/presentation.xml", "content.xml"}
    ELSE {}

\* OfficeCleaner._remove_rsid_attributes
RemoveRsidAttributes(blob) == [blob EXCEPT !.rsid = FALSE]

CleanContentFiles(parts, file_ext) ==
    [n \in DOMAIN parts |->
        IF n \in ContentFiles(file_ext) THEN RemoveRsidAttributes(parts[n]) ELSE parts[n]]

\* OfficeCleaner._update_content_types; mio is the fate of tree.write on
\* the extracted manifest.  Every exception is logged and swallowed: a
\* manifest that does not parse, or cannot be opened for writing, stays as
\* it is, and one whose write fails stays truncated.
UpdateContentTypes(parts, mio) ==
    IF MANIFEST \notin DOMAIN parts THEN parts
    ELSE IF parts[MANIFEST].type # "manifest" THEN parts
    ELSE IF ~mio.opened THEN parts
    ELSE IF mio.failed THEN [parts EXCEPT ![MANIFEST] = Blob("truncated", EmptyFn, {}, FALSE, "")]
    ELSE [parts EXCEPT ![MANIFEST].overrides = @ \ metadata_parts]

\* The extracted tree after lines 74-97 of OfficeCleaner.clean.
CleanedParts(lvl, parts, file_ext, mio) ==
    LET a == CleanMetadataFiles(lvl, parts)
        b == IF lvl \in {DEEP, PARANOID} THEN CleanContentFiles(a, file_ext) ELSE a
    IN UpdateContentTypes(b, mio)

\* The order in which _create_office_file's rglob yields the parts.
PartOrder ==
    <<MANIFEST, CORE, APP, CUSTOM, DOCUMENT, "xl/workbook.xml", "ppt/presentation.xml",
      "content.xml", MEDIA>>

\* The first k parts of the tree, in that order.
FirstParts(parts, k) ==
    LET idx == {i \in DOMAIN PartOrder : PartOrder[i] \in DOMAIN parts}
        keep == {i \in idx : Cardinality({j \in idx : j < i}) < k}
    IN [n \in {PartOrder[i] : i \in keep} |-> parts[n]]

----------------------------------------------------------------------------
(* Writing a file can fail.  An io is the fate of one write of a file:     *)
(* whether the open succeeded (a successful open for writing truncates the *)
(* target), whether the write then failed, and how many units were written *)
(* before it did.                                                          *)

MaxPartial == 1

IoOk == [opened |-> TRUE, failed |-> FALSE, written |-> 0]
IoOpenFails == [opened |-> FALSE, failed |-> TRUE, written |-> 0]
IoFailsAfter(k) == [opened |-> TRUE, failed |-> TRUE, written |-> k]

\* The fates of a write of n units, while the environment has `budget` more
\* failures to inflict.
IoChoices(n, budget) ==
    IF budget = 0 THEN {IoOk}
    ELSE {IoOk, IoOpenFails} \cup {IoFailsAfter(k) : k \in 0..((IF n < MaxPartial THEN n ELSE MaxPartial) - 1)}

Spend(budget, io) == IF io.failed THEN budget - 1 ELSE budget

\* A target that exists and cannot be opened.
Locked(f, p) == Exists(f, p) /\ ~f[p].readable

\* The first k bytes of a content: of an archive they are no archive.
Truncated(c, k) ==
    IF c.kind = "raw" THEN RawContent(SubSeq(c.data, 1, k))
    ELSE RawContent([i \in 1..k |-> "z"])

\* A cleaner's clean(): what it returns, the message it gave add_error (None
\* when it gave none) and the file system it leaves.
Outcome(success, error, f) == [success |-> success, error |-> error, fs |-> f]

\* OfficeCleaner._create_office_file: ZipFile(output_path, 'w') and one
\* zf.write per part; leaving the with block closes the archive with the
\* parts written so far.
CreateOfficeFile(f, tree, output_path, io) ==
    IF Locked(f, output_path) \/ ~io.opened THEN f
    ELSE IF io.failed THEN WriteFile(f, output_path, ZipContent(FirstParts(tree, io.written)))
    ELSE WriteFile(f, output_path, ZipContent(tree))

CreateOfficeFileRaises(f, output_path, io) == Locked(f, output_path) \/ io.failed

\* OfficeCleaner.clean after reset() and extract_metadata(): lines 64-107.
OfficeClean(lvl, f, input_path, output_path, mio, io) ==
    IF ~Exists(f, input_path) \/ Locked(f, input_path)
       \/ f[input_path].content.kind # "zip"
    THEN Outcome(FALSE, Some("Failed to clean Office document"), f)
    ELSE LET tree == CleanedParts(lvl, f[input_path].content.parts, input_path.suffix, mio)
             g == CreateOfficeFile(f, tree, output_path, io)
         IN IF CreateOfficeFileRaises(f, output_path, io)
            THEN Outcome(FALSE, Some("Failed to clean Office document"), g)
            ELSE Outcome(TRUE, None, g)

\* The number of units OfficeCleaner.clean writes to output_path.
OfficeWrites(lvl, f, input_path) ==
    IF ~Exists(f, input_path) \/ f[input_path].content.kind # "zip" THEN 0
    ELSE Cardinality(DOMAIN CleanedParts(lvl, f[input_path].content.parts, input_path.suffix, IoOk))

----------------------------------------------------------------------------
(* cleaners/text_cleaner.py.  The raw data of an RTF file is a sequence of *)
(* tokens: text, or a control word with its argument.                      *)

DotRtf == <<".">> \o RTF

RtfInfo == "\\info{\\author A\\creatim T}"
RtfAuthor == "\\author A"
RtfCompany == "\\company C"
RtfTitle == "\\title R"

\* The control words extract_metadata looks for that occur in a token.
TokenFields(tok) ==
    CASE tok = RtfInfo -> {"Author", "CreationTime"}
      [] tok = RtfAuthor -> {"Author"}
      [] tok = RtfCompany -> {"Company"}
      [] OTHER -> {}

\* The tokens one of _clean_rtf's substitutions deletes.
RtfMetadataTokens == {RtfInfo, RtfAuthor, RtfCompany, RtfTitle}

\* TextCleaner.extract_metadata
TextExtractMetadata(f, file_path) ==
    IF Lower(file_path.suffix) # DotRtf THEN EmptyFn
    ELSE IF ~Exists(f, file_path) \/ Locked(f, file_path) THEN EmptyFn
    ELSE LET data == f[file_path].content.data
             found == UNION {TokenFields(data[i]) : i \in DOMAIN data}
         IN [k \in {<<"Rtf", w>> : w \in found} |-> "Present"]

\* A write of `content` to p under io.
WriteUnder(f, p, content, io) ==
    IF Locked(f, p) \/ ~io.opened THEN f
    ELSE IF io.failed THEN WriteFile(f, p, Truncated(content, io.written))
    ELSE WriteFile(f, p, content)

RECURSIVE SelectTokens(_, _)
SelectTokens(data, drop) ==
    IF data = <<>> THEN <<>>
    ELSE IF Head(data) \in drop THEN SelectTokens(Tail(data), drop)
    ELSE <<Head(data)>> \o SelectTokens(Tail(data), drop)

\* TextCleaner._clean_rtf
CleanRtf(f, input_path, output_path, io) ==
    IF ~Exists(f, input_path) \/ Locked(f, input_path)
    THEN Outcome(FALSE, Some("Failed to clean RTF"), f)
    ELSE LET content == RawContent(SelectTokens(f[input_path].content.data, RtfMetadataTokens))
             g == WriteUnder(f, output_path, content, io)
         IN IF Locked(f, output_path) \/ io.failed
            THEN Outcome(FALSE, Some("Failed to clean RTF"), g)
            ELSE Outcome(TRUE, None, g)

\* TextCleaner.clean after reset() and extract_metadata()
TextClean(f, input_path, output_path, io) ==
    IF Lower(input_path.suffix) = DotRtf THEN CleanRtf(f, input_path, output_path, io)
    ELSE IF input_path # output_path
    THEN IF ~Exists(f, input_path) \/ Locked(f, input_path)
         THEN Outcome(FALSE, Some("Failed to clean text document"), f)
         ELSE LET g == WriteUnder(f, output_path, f[input_path].content, io)
              IN IF Locked(f, output_path) \/ io.failed
                 THEN Outcome(FALSE, Some("Failed to clean text document"), g)
                 ELSE Outcome(TRUE, None, g)
    ELSE Outcome(TRUE, None, f)

\* The number of units TextCleaner.clean writes to output_path.
TextWrites(f, input_path, output_path) ==
    IF ~Exists(f, input_path) THEN 0
    ELSE IF Lower(input_path.suffix) # DotRtf /\ input_path = output_path THEN 0
    ELSE ContentSize(f[input_path].content)

----------------------------------------------------------------------------
(* cleaners/pdf_cleaner.py.  A page document is a content of kind "pdf";   *)
(* its parts are the entries of its trailer and of its catalogue: "/Info"  *)
(* (the document info dictionary, an xml-like blob of keys), "/Metadata"   *)
(* (the XMP packet), "/JavaScript", "/EmbeddedFiles", "/PageLabels",       *)
(* "/OCProperties" and "/Pages".                                           *)

PdfContent(parts) == [kind |-> "pdf", parts |-> parts, data |-> <<>>]

\* PDFCleaner.extract_metadata
PdfExtractMetadata(f, file_path) ==
    IF ~Exists(f, file_path) THEN EmptyFn
    ELSE IF ~f[file_path].readable \/ f[file_path].content.kind # "pdf" THEN EmptyFn
    ELSE LET parts == f[file_path].content.parts
             info == IF "/Info" \in DOMAIN parts
                     THEN Merge([k \in {<<"DocInfo", key>> : key \in DOMAIN parts["/Info"].fields}
                                   |-> parts["/Info"].fields[k[2]]],
                                [k \in {<<"Trailer", "Info">>} |-> "Present"])
                     ELSE EmptyFn
             xmp == IF "/Metadata" \in DOMAIN parts
                    THEN [k \in {<<"XMP", "">>} |-> "Present"] ELSE EmptyFn
             js == IF "/JavaScript" \in DOMAIN parts
                   THEN [k \in {<<"JavaScript", "">>} |-> "Present"] ELSE EmptyFn
         IN Merge(info, Merge(xmp, js))

\* A clean() whose DEEP and PARANOID branch replaces the removals of every
\* level instead of following them.
PdfCleanedEitherOr(lvl, parts) ==
    IF lvl \in {DEEP, PARANOID}
    THEN Without(parts, {"/JavaScript", "/PageLabels", "/OCProperties"})
    ELSE Without(parts, {"/Info", "/Metadata"})

\* PDFCleaner.clean lines 67-110: the entries left in the open document.
PdfCleaned(lvl, parts) ==
    LET basic == Without(parts, {"/Info", "/Metadata"})
    IN IF lvl \in {DEEP, PARANOID}
       THEN Without(basic, {"/JavaScript", "/PageLabels", "/OCProperties"})
       ELSE basic

\* PDFCleaner.clean after reset() and extract_metadata().  pikepdf refuses
\* to save over the file it has open.
PdfClean(lvl, f, input_path, output_path, io) ==
    IF ~Exists(f, input_path) \/ Locked(f, input_path)
       \/ f[input_path].content.kind # "pdf" \/ input_path = output_path
    THEN Outcome(FALSE, Some("Failed to clean PDF"), f)
    ELSE LET g == WriteUnder(f, output_path,
                             PdfContent(PdfCleaned(lvl, f[input_path].content.parts)), io)
         IN IF Locked(f, output_path) \/ io.failed
            THEN Outcome(FALSE, Some("Failed to clean PDF"), g)
            ELSE Outcome(TRUE, None, g)

----------------------------------------------------------------------------
(* cleaners/audio_cleaner.py.  An audio file is a content of kind "audio"; *)
(* its parts are "frames" (the stream) and, when it is tagged, "tags" (an  *)
(* xml-like blob of tag -> value).                                         *)

AudioContent(parts) == [kind |-> "audio", parts |-> parts, data |-> <<>>]

\* AudioCleaner.extract_metadata
AudioExtractMetadata(f, file_path) ==
    IF ~Exists(f, file_path) THEN EmptyFn
    ELSE IF ~f[file_path].readable \/ f[file_path].content.kind # "audio" THEN EmptyFn
    ELSE LET parts == f[file_path].content.parts
             tags == IF "tags" \in DOMAIN parts
                     THEN [k \in {<<tag, "">> : tag \in DOMAIN parts["tags"].fields}
                             |-> Trunc100(parts["tags"].fields[k[1]])]
                     ELSE EmptyFn
         IN Merge(tags, [k \in {<<"Info", "">>} |-> "stream"])

\* The tags AudioCleaner.clean deletes at BASIC.
AudioSensitiveTags ==
    {"TPE1", "TPE2", "TALB", "TIT2", "TDRC", "TYER", "artist", "album", "title", "date",
     "year", "(c)ART", "(c)alb", "(c)nam", "(c)day"}

\* AudioCleaner.clean lines 70-86: the tags of the loaded file, and the
\* input file itself, which audio.delete() rewrites without its tags.
AudioLoaded(lvl, parts) ==
    IF "tags" \notin DOMAIN parts \/ DOMAIN parts["tags"].fields = {} THEN parts
    ELSE IF lvl = BASIC
    THEN [parts EXCEPT !["tags"].fields = Without(@, AudioSensitiveTags)]
    ELSE Without(parts, {"tags"})

\* AudioCleaner.clean after reset() and extract_metadata().  To another
\* path the input is copied and every tag of the copy deleted; in place the
\* loaded file is saved.
AudioClean(lvl, f, input_path, output_path, io) ==
    IF ~Exists(f, input_path) \/ Locked(f, input_path)
    THEN Outcome(FALSE, Some("Failed to clean audio"), f)
    ELSE IF f[input_path].content.kind # "audio"
    THEN Outcome(FALSE, Some("Unsupported audio format"), f)
    ELSE LET parts == f[input_path].content.parts
             tagged == "tags" \in DOMAIN parts /\ DOMAIN parts["tags"].fields # {}
             deleted == IF tagged /\ lvl # BASIC
                        THEN WriteFile(f, input_path, AudioContent(Without(parts, {"tags"})))
                        ELSE f
             saved == IF input_path # output_path
                      THEN AudioContent(Without(parts, {"tags"}))
                      ELSE AudioContent(AudioLoaded(lvl, parts))
             g == WriteUnder(deleted, output_path, saved, io)
         IN IF Locked(f, output_path) \/ io.failed
            THEN Outcome(FALSE, Some("Failed to clean audio"), g)
            ELSE Outcome(TRUE, None, g)

----------------------------------------------------------------------------
(* core/utils.py create_backup                                             *)

TicksPerSecond == 2

\* datetime.now().strftime("%Y%m%d_%H%M%S"): the clock cut to whole seconds.
Strftime(t) == ToString(t \div TicksPerSecond)

\* file_path.parent / "metadata_cleaner_backups"
DefaultBackupDir(d) ==
    CASE d = "docs" -> "docs/metadata_cleaner_backups"
      [] d = "other" -> "other/metadata_cleaner_backups"
      [] OTHER -> "metadata_cleaner_backups"

\* create_backup: backup_dir / f"{file_path.stem}_{timestamp}{file_path.suffix}"
BackupPath(file_path, bdir, t) ==
    LET d == IF bdir = None THEN DefaultBackupDir(file_path.dir) ELSE The(bdir)
    IN Path(d, Append(file_path.stem, Strftime(t)), file_path.suffix)

\* A create_backup that swallows the failure of the copy.
CreateBackupRaisesSwallowed(f, file_path, bdir, t, io) ==
    \/ ~Exists(f, file_path)
    \/ Locked(f, file_path)

\* create_backup raises: the copy failed.
CreateBackupRaises(f, file_path, bdir, t, io) ==
    \/ ~Exists(f, file_path)
    \/ Locked(f, file_path)
    \/ Locked(f, BackupPath(file_path, bdir, t))
    \/ io.failed

\* The file system create_backup leaves (shutil.copy2 opens the source
\* before it opens, and so truncates, the target).
CreateBackupFs(f, file_path, bdir, t, io) ==
    IF ~Exists(f, file_path) \/ Locked(f, file_path)
    THEN f
    ELSE WriteUnder(f, BackupPath(file_path, bdir, t), f[file_path].content, io)

----------------------------------------------------------------------------
(* core/cleaner.py MetadataCleaner._get_cleaner: the key into cleaners, or *)
(* None.                                                                   *)

\* A _get_cleaner without the branch of the video types.
_get_cleaner_less(file_path) ==
    LET file_type == from_extension(file_path.suffix)
    IN IF file_type = PDF THEN Some("pdf")
       ELSE IF file_type \in {DOCX, XLSX, PPTX, ODT, ODS, ODP} THEN Some("office")
       ELSE IF is_image(file_type) THEN Some("image")
       ELSE IF is_audio(file_type) THEN Some("audio")
       ELSE IF file_type \in {TXT, RTF} THEN Some("text")
       ELSE None

_get_cleaner(file_path) ==
    LET file_type == from_extension(file_path.suffix)
    IN IF file_type = PDF THEN Some("pdf")
       ELSE IF file_type \in {DOCX, XLSX, PPTX, ODT, ODS, ODP} THEN Some("office")
       ELSE IF is_image(file_type) THEN Some("image")
       ELSE IF is_audio(file_type) THEN Some("audio")
       ELSE IF is_video(file_type) THEN Some("video")
       ELSE IF file_type \in {TXT, RTF} THEN Some("text")
       ELSE None

Categories == {"pdf", "office", "image", "audio", "video", "text"}

\* The cleaner's extract_metadata, by category.  The image and video
\* cleaners run external tools; a file of their types in this model is no
\* image and no video, so that they read nothing from it and fail on it.
ExtractMetadata(cat, f, file_path) ==
    CASE cat = "office" -> OfficeExtractMetadata(f, file_path)
      [] cat = "text" -> TextExtractMetadata(f, file_path)
      [] cat = "pdf" -> PdfExtractMetadata(f, file_path)
      [] cat = "audio" -> AudioExtractMetadata(f, file_path)
      [] OTHER -> EmptyFn

\* The cleaner's clean() after reset() and extract_metadata(), by category.
CleanerClean(cat, lvl, f, input_path, output_path, mio, io) ==
    CASE cat = "office" -> OfficeClean(lvl, f, input_path, output_path, mio, io)
      [] cat = "text" -> TextClean(f, input_path, output_path, io)
      [] cat = "pdf" -> PdfClean(lvl, f, input_path, output_path, io)
      [] cat = "audio" -> AudioClean(lvl, f, input_path, output_path, io)
      [] OTHER -> Outcome(FALSE, Some("Failed to clean"), f)

CleanerWrites(cat, lvl, f, input_path, output_path) ==
    CASE cat = "office" -> OfficeWrites(lvl, f, input_path)
      [] cat = "text" -> TextWrites(f, input_path, output_path)
      [] cat \in {"pdf", "audio"} ->
            IF Exists(f, input_path) THEN ContentSize(f[input_path].content) ELSE 0
      [] OTHER -> 0

----------------------------------------------------------------------------
(* The files of the model.                                                 *)

Dot(ext) == <<".">> \o ext

DocA == Path("docs", <<"a">>, Dot(DOCX))
DocB == Path("docs", <<"b">>, Dot(DOCX))
Note == Path("other", <<"n">>, Dot(TXT))
Unsupported == Path("docs", <<"u">>, <<".", "x", "y", "z">>)
LockedDoc == Path("other", <<"l">>, Dot(DOCX))
CorruptDoc == Path("other", <<"k">>, Dot(DOCX))
Missing == Path("docs", <<"m">>, Dot(PDF))

ArchiveA ==
    ZipContent(
        (MANIFEST :> ManifestBlob({PartName(CORE), PartName(APP), PartName(CUSTOM),
                                   PartName(DOCUMENT)}))
     @@ (CORE :> XmlBlob(("creator" :> "Alice") @@ ("lastModifiedBy" :> "Bob")
                          @@ ("title" :> "Report")))
     @@ (APP :> XmlBlob(("Company" :> "Acme") @@ ("Application" :> "Writer")))
     @@ (CUSTOM :> XmlBlob(("property" :> "secret")))
     @@ (DOCUMENT :> ContentBlob("Hello", TRUE))
     @@ (MEDIA :> OpaqueBlob("png")))

ArchiveB ==
    ZipContent(
        (MANIFEST :> ManifestBlob({PartName(CORE), PartName(DOCUMENT)}))
     @@ (CORE :> XmlBlob(("creator" :> "Carol") @@ ("created" :> "2024")))
     @@ (DOCUMENT :> ContentBlob("World", FALSE)))

InitialFs ==
       (DocA :> File(ArchiveA, TRUE))
    @@ (DocB :> File(ArchiveB, TRUE))
    @@ (Note :> File(RawContent(<<"h", "i">>), TRUE))
    @@ (Unsupported :> File(RawContent(<<"x">>), TRUE))
    @@ (LockedDoc :> File(ArchiveB, FALSE))
    @@ (CorruptDoc :> File(RawContent(<<"n", "o", "z", "i", "p">>), TRUE))

\* The paths handed to the entry points.
InputPaths == {DocA, DocB, Note, Unsupported, LockedDoc, CorruptDoc, Missing}

\* The order in which a caller lists paths, and a folder's glob yields them.
PathOrder == <<DocA, DocB, Note, Unsupported, LockedDoc, CorruptDoc, Missing>>

\* The paths handed to the batch entry points.
BatchPaths == {DocA, DocB, Note, Unsupported, LockedDoc}

\* The members of S, in that order.
RECURSIVE Listed(_, _)
Listed(order, S) ==
    IF order = <<>> THEN <<>>
    ELSE IF Head(order) \in S THEN <<Head(order)>> \o Listed(Tail(order), S)
    ELSE Listed(Tail(order), S)

\* The output path of a call that does not clean in place.
OutPath(p) == Path("out", p.stem, p.suffix)

----------------------------------------------------------------------------
(* The heap: cleaners/base_cleaner.py BaseCleaner.__init__, reset,         *)
(* add_warning, add_error.                                                 *)

Addr(owner, n, field) == [owner |-> owner, n |-> n, field |-> field]

\* BaseCleaner.__init__: the three containers of one cleaner.
NewCleaner(cat) ==
    [metadata_removed |-> Addr(cat, 0, "metadata_removed"),
     warnings |-> Addr(cat, 0, "warnings"),
     errors |-> Addr(cat, 0, "errors")]

InitialHeap ==
    [a \in {Addr(c, 0, fld) : c \in Categories,
                              fld \in {"metadata_removed", "warnings", "errors"}}
        |-> <<>>]

Alloc(h, a, v) == [b \in DOMAIN h \cup {a} |-> IF b = a THEN v ELSE h[b]]

\* BaseCleaner.reset: clear() empties the objects the fields refer to.
reset(h, c) ==
    [h EXCEPT ![c.metadata_removed] = <<>>, ![c.warnings] = <<>>, ![c.errors] = <<>>]

\* BaseCleaner.add_warning
add_warning(h, c, message) == [h EXCEPT ![c.warnings] = Append(@, message)]

\* BaseCleaner.add_error
add_error(h, c, message) == [h EXCEPT ![c.errors] = Append(@, message)]

----------------------------------------------------------------------------
(* core/result.py                                                          *)

\* CleaningResult: metadata_removed, errors and warnings hold addresses.
CleaningResult(file_path, success, original_size, cleaned_size, metadata_removed, errors, warnings, backup_path, content_hash_before, content_hash_after) ==
    [file_path |-> file_path, success |-> success,
     original_size |-> original_size, cleaned_size |-> cleaned_size,
     metadata_removed |-> metadata_removed, errors |-> errors, warnings |-> warnings,
     backup_path |-> backup_path, content_hash_before |-> content_hash_before,
     content_hash_after |-> content_hash_after]

\* A size_reduction with its operands exchanged.
size_reduction_exchanged(r) == r.cleaned_size - r.original_size

size_reduction(r) == r.original_size - r.cleaned_size

metadata_count(h, r) == Cardinality(DOMAIN h[r.metadata_removed])

\* What a result says: the values its three containers hold in heap h.
Contents(h, r) ==
    [metadata_removed |-> h[r.metadata_removed], errors |-> h[r.errors],
     warnings |-> h[r.warnings]]

\* BatchCleaningResult()
NewBatchCleaningResult ==
    [total_files |-> 0, successful |-> 0, failed |-> 0, skipped |-> 0,
     results |-> <<>>, total_time |-> 0, total_size_reduction |-> 0]

\* An add_result that assigns the reduction where the code adds it.
add_result_assigning(b, t, result) ==
    [b EXCEPT !.results = Append(@, t),
              !.total_files = @ + 1,
              !.successful = IF result.success THEN @ + 1 ELSE @,
              !.total_size_reduction =
                    IF result.success THEN size_reduction(result) ELSE @,
              !.failed = IF result.success THEN @ ELSE @ + 1]

\* BatchCleaningResult.add_result; the results list holds the task whose
\* CleaningResult was added.
add_result(b, t, result) ==
    [b EXCEPT !.results = Append(@, t),
              !.total_files = @ + 1,
              !.successful = IF result.success THEN @ + 1 ELSE @,
              !.total_size_reduction =
                    IF result.success THEN @ + size_reduction(result) ELSE @,
              !.failed = IF result.success THEN @ ELSE @ + 1]

----------------------------------------------------------------------------
(* core/cleaner.py: one clean_file invocation is a task.  Its locals are   *)
(* the fields of the task; `pc` is the statement it is at.  Some fields    *)
(* record history and are read by no action: `before` (the input file when *)
(* the call began), `out_before` (the file at output_path then), `invoked` *)
(* (the cleaner's clean() was called),                                     *)
(* `backup_tried` and `backed_up` (create_backup was called; a complete    *)
(* copy of the input was at the backup path when it ended), `own` (what    *)
(* this call's own cleaning produced) and `snap` (what the result said     *)
(* when it was returned).                                                  *)

NoContents == [metadata_removed |-> <<>>, errors |-> <<>>, warnings |-> <<>>]

NewTask(file_path, output_path, thread, pc) ==
    [file_path |-> file_path, output_path |-> output_path, thread |-> thread,
     pc |-> pc, original_size |-> 0, content_hash_before |-> None,
     backup_path |-> None, cleaner |-> None, success |-> FALSE, result |-> None,
     before |-> IF Exists(fs, file_path) THEN Some(fs[file_path]) ELSE None,
     out_before |-> IF Exists(fs, output_path) THEN Some(fs[output_path]) ELSE None,
     invoked |-> FALSE, backup_tried |-> FALSE, backed_up |-> FALSE,
     own |-> NoContents, snap |-> None, temp_dir |-> None]

TaskIds == DOMAIN tasks

Idle ==
    [pc |-> "idle", entry |-> "none", max_workers |-> 0, first |-> 1, last |-> 0,
     folded |-> {}, start_time |-> 0, all_files |-> {}, outcome |-> "none",
     stopped |-> FALSE, pending |-> {}]

Init ==
    /\ level \in CleaningLevel
    /\ backup \in BOOLEAN
    /\ verify \in BOOLEAN
    /\ backup_dir \in IF backup THEN {None, Some("bk")} ELSE {None}
    /\ cleaners = [c \in Categories |-> NewCleaner(c)]
    /\ heap = InitialHeap
    /\ fs = InitialFs
    /\ now = 0
    /\ tasks = <<>>
    /\ orch = Idle
    /\ batch_result = NewBatchCleaningResult
    /\ returned = <<>>
    /\ faults = MaxFaults

\* A return in which a worker thread adds its result to the aggregate itself.
ReturnAdding(t, rec, res, h) ==
    /\ tasks' = [tasks EXCEPT ![t] =
                    [rec EXCEPT !.pc = "done", !.result = Some(res),
                                !.snap = Some(Contents(h, res))]]
    /\ heap' = h
    /\ IF tasks[t].thread = "main"
       THEN /\ returned' = Append(returned, t)
            /\ orch' = [orch EXCEPT !.pc = "idle"]
            /\ UNCHANGED batch_result
       ELSE /\ batch_result' = add_result(batch_result, t, res)
            /\ UNCHANGED <<returned, orch>>

\* The task ends by returning `res`; h is the heap it leaves.  A direct call
\* hands the result to the caller.
Return(t, rec, res, h) ==
    /\ tasks' = [tasks EXCEPT ![t] =
                    [rec EXCEPT !.pc = "done", !.result = Some(res),
                                !.snap = Some(Contents(h, res))]]
    /\ heap' = h
    /\ IF tasks[t].thread = "main"
       THEN /\ returned' = Append(returned, t)
            /\ orch' = [orch EXCEPT !.pc = "idle"]
       ELSE UNCHANGED <<returned, orch>>
    /\ UNCHANGED batch_result

\* The task ends by an exception that nothing in clean_file catches.
Raise(t) ==
    /\ tasks' = [tasks EXCEPT ![t].pc = "raised"]
    /\ IF tasks[t].thread = "main"
       THEN orch' = [orch EXCEPT !.pc = "idle"]
       ELSE UNCHANGED orch
    /\ UNCHANGED <<heap, returned, batch_result>>

\* A result built with containers of its own: CleaningResult(..., errors=[msg]).
ReturnFailure(t, rec, original_size, message) ==
    LET h == Alloc(Alloc(Alloc(heap,
                 Addr("result", t, "metadata_removed"), <<>>),
                 Addr("result", t, "warnings"), <<>>),
                 Addr("result", t, "errors"), <<message>>)
        res == CleaningResult(tasks[t].file_path, FALSE, original_size, 0,
                 Addr("result", t, "metadata_removed"), Addr("result", t, "errors"),
                 Addr("result", t, "warnings"), None, None, None)
    IN Return(t, [rec EXCEPT !.own.errors = <<message>>], res, h)

\* A clean_file that tries the backup before it looks for the file.
ReadInputBackupFirst(t) ==
    /\ tasks[t].pc = "exists"
    /\ IF ~Exists(fs, tasks[t].file_path)
       THEN IF backup
            THEN ReturnFailure(t, [tasks[t] EXCEPT !.backup_tried = TRUE], 0,
                               "Failed to create backup")
            ELSE ReturnFailure(t, tasks[t], 0, "File not found")
       ELSE IF ~is_supported_file(tasks[t].file_path)
       THEN ReturnFailure(t, tasks[t], get_file_size(fs, tasks[t].file_path),
                          "Unsupported file type")
       ELSE IF verify /\ Locked(fs, tasks[t].file_path)
       THEN Raise(t)
       ELSE /\ tasks' = [tasks EXCEPT ![t] =
                  [@ EXCEPT !.pc = IF backup THEN "backup" ELSE "clean",
                            !.original_size = get_file_size(fs, tasks[t].file_path),
                            !.content_hash_before =
                                IF verify THEN Some(calculate_file_hash(fs, tasks[t].file_path))
                                ELSE None]]
            /\ UNCHANGED <<heap, returned, orch, batch_result>>
    /\ UNCHANGED <<level, backup, verify, backup_dir, cleaners, fs, now, faults>>

\* clean_file lines 77-99: the file must exist and be of a supported type;
\* then its size and, with verify, its hash are read.  Hashing a file that
\* cannot be opened raises, and nothing in clean_file catches it.
ReadInput(t) ==
    /\ tasks[t].pc = "exists"
    /\ IF ~Exists(fs, tasks[t].file_path)
       THEN ReturnFailure(t, tasks[t], 0, "File not found")
       ELSE IF ~is_supported_file(tasks[t].file_path)
       THEN ReturnFailure(t, tasks[t], get_file_size(fs, tasks[t].file_path),
                          "Unsupported file type")
       ELSE IF verify /\ Locked(fs, tasks[t].file_path)
       THEN Raise(t)
       ELSE /\ tasks' = [tasks EXCEPT ![t] =
                  [@ EXCEPT !.pc = IF backup THEN "backup" ELSE "clean",
                            !.original_size = get_file_size(fs, tasks[t].file_path),
                            !.content_hash_before =
                                IF verify THEN Some(calculate_file_hash(fs, tasks[t].file_path))
                                ELSE None]]
            /\ UNCHANGED <<heap, returned, orch, batch_result>>
    /\ UNCHANGED <<level, backup, verify, backup_dir, cleaners, fs, now, faults>>

\* clean_file lines 101-114: create_backup, and the failed result when it raises.
CreateBackup(t) ==
    /\ tasks[t].pc = "backup"
    /\ \E io \in IoChoices(ContentSize(fs[tasks[t].file_path].content), faults) :
        LET file_path == tasks[t].file_path
            g == CreateBackupFs(fs, file_path, backup_dir, now, io)
            backup_path == BackupPath(file_path, backup_dir, now)
            rec == [tasks[t] EXCEPT
                       !.backup_tried = TRUE,
                       !.backed_up = /\ Exists(g, backup_path)
                                     /\ g[backup_path].content = fs[file_path].content]
        IN /\ faults' = Spend(faults, io)
           /\ fs' = g
           /\ IF CreateBackupRaises(fs, file_path, backup_dir, now, io)
              THEN ReturnFailure(t, rec, tasks[t].original_size, "Failed to create backup")
              ELSE /\ tasks' = [tasks EXCEPT ![t] =
                         [rec EXCEPT !.pc = "clean", !.backup_path = Some(backup_path)]]
                   /\ UNCHANGED <<heap, returned, orch, batch_result>>
    /\ UNCHANGED <<level, backup, verify, backup_dir, cleaners, now>>

\* clean_file lines 116-128 and the first statement of the cleaner's clean():
\* _get_cleaner, the failed result when there is none, and self.reset().
CleanerReset(t) ==
    /\ tasks[t].pc = "clean"
    /\ LET c == _get_cleaner(tasks[t].file_path)
       IN IF c = None
          THEN ReturnFailure(t, tasks[t], tasks[t].original_size, "No cleaner available")
          ELSE /\ tasks' = [tasks EXCEPT ![t] =
                     [@ EXCEPT !.pc = "extract", !.cleaner = c, !.invoked = TRUE]]
               /\ heap' = reset(heap, cleaners[The(c)])
               /\ UNCHANGED <<returned, orch, batch_result>>
    /\ UNCHANGED <<level, backup, verify, backup_dir, cleaners, fs, now, faults>>

\* clean(): self.metadata_removed = self.extract_metadata(input_path): a new
\* dict, and the cleaner's field bound to it.
CleanerExtract(t) ==
    /\ tasks[t].pc = "extract"
    /\ LET cat == The(tasks[t].cleaner)
           md == ExtractMetadata(cat, fs, tasks[t].file_path)
           a == Addr("task", t, "metadata_removed")
       IN /\ heap' = Alloc(heap, a, md)
          /\ cleaners' = [cleaners EXCEPT ![cat].metadata_removed = a]
          /\ tasks' = [tasks EXCEPT ![t] =
                [@ EXCEPT !.pc = "body", !.own.metadata_removed = md]]
    /\ UNCHANGED <<level, backup, verify, backup_dir, fs, now, orch, batch_result, returned,
                   faults>>

\* shutil.rmtree of a directory: the files under it are gone.
Rmtree(f, d) == [p \in {q \in DOMAIN f : q.dir # d} |-> f[p]]

\* clean(): the rest of the try block, and add_error in its except clause;
\* temp is the scratch directory that leaving the try block removes (None
\* when the step is taken with none).
CleanerTry(t, temp) ==
    /\ LET cat == The(tasks[t].cleaner)
           \* the writes of the extracted manifest: one, by an office
           \* cleaner whose input is an archive with a manifest that parses
           file_path == tasks[t].file_path
           manifest_writes ==
               IF /\ cat = "office" /\ Exists(fs, file_path) /\ ~Locked(fs, file_path)
                  /\ fs[file_path].content.kind = "zip"
                  /\ MANIFEST \in DOMAIN fs[file_path].content.parts
                  /\ fs[file_path].content.parts[MANIFEST].type = "manifest"
               THEN 1 ELSE 0
       IN \E mio \in IF manifest_writes = 0 THEN {IoOk} ELSE IoChoices(1, faults) :
          \E io \in IoChoices(CleanerWrites(cat, level, fs, tasks[t].file_path,
                                           tasks[t].output_path), Spend(faults, mio)) :
            LET o == CleanerClean(cat, level, fs, tasks[t].file_path,
                                  tasks[t].output_path, mio, io)
            IN /\ faults' = Spend(Spend(faults, mio), io)
               /\ fs' = IF temp = None THEN o.fs ELSE Rmtree(o.fs, The(temp))
               /\ heap' = IF IsSome(o.error)
                          THEN add_error(heap, cleaners[cat], The(o.error)) ELSE heap
               /\ tasks' = [tasks EXCEPT ![t] =
                     [@ EXCEPT !.pc = "post", !.success = o.success,
                               !.own.errors = IF IsSome(o.error)
                                              THEN Append(@, The(o.error)) ELSE @]]
    /\ UNCHANGED <<level, backup, verify, backup_dir, cleaners, now, orch, batch_result,
                   returned>>

\* The try block of clean() as one step.
CleanerBody(t) ==
    /\ tasks[t].pc = "body"
    /\ CleanerTry(t, None)

\* A clean_file that takes a failed verification for a failure of the
\* clean: it adds an error and returns success = False.
BuildResultFailing(t) ==
    /\ tasks[t].pc = "post"
    /\ LET cat == The(tasks[t].cleaner)
           out == tasks[t].output_path
           cleaned_size == IF Exists(fs, out) THEN get_file_size(fs, out) ELSE 0
           warn == verify /\ tasks[t].success
                   /\ ~verify_file_integrity(fs, tasks[t].file_path, out)
           message == "File integrity verification failed"
           h == IF warn THEN add_error(heap, cleaners[cat], message) ELSE heap
           rec == [tasks[t] EXCEPT !.own.errors = IF warn THEN Append(@, message) ELSE @]
           res == CleaningResult(tasks[t].file_path, tasks[t].success /\ ~warn,
                     tasks[t].original_size, cleaned_size,
                     cleaners[cat].metadata_removed, cleaners[cat].errors,
                     cleaners[cat].warnings, tasks[t].backup_path,
                     tasks[t].content_hash_before,
                     IF verify /\ Exists(fs, out)
                     THEN Some(calculate_file_hash(fs, out)) ELSE None)
       IN IF verify /\ Locked(fs, out) THEN Raise(t) ELSE Return(t, rec, res, h)
    /\ UNCHANGED <<level, backup, verify, backup_dir, cleaners, fs, now, faults>>

\* clean_file lines 130-152: sizes and hashes, the integrity warning, and the
\* result, whose three containers are the cleaner's own.
BuildResult(t) ==
    /\ tasks[t].pc = "post"
    /\ LET cat == The(tasks[t].cleaner)
           out == tasks[t].output_path
           cleaned_size == IF Exists(fs, out) THEN get_file_size(fs, out) ELSE 0
           warn == verify /\ tasks[t].success
                   /\ ~verify_file_integrity(fs, tasks[t].file_path, out)
           message == "File integrity verification failed"
           h == IF warn THEN add_warning(heap, cleaners[cat], message) ELSE heap
           rec == [tasks[t] EXCEPT !.own.warnings = IF warn THEN Append(@, message) ELSE @]
           res == CleaningResult(tasks[t].file_path, tasks[t].success,
                     tasks[t].original_size, cleaned_size,
                     cleaners[cat].metadata_removed, cleaners[cat].errors,
                     cleaners[cat].warnings, tasks[t].backup_path,
                     tasks[t].content_hash_before,
                     IF verify /\ Exists(fs, out)
                     THEN Some(calculate_file_hash(fs, out)) ELSE None)
       IN IF verify /\ Locked(fs, out) THEN Raise(t) ELSE Return(t, rec, res, h)
    /\ UNCHANGED <<level, backup, verify, backup_dir, cleaners, fs, now, faults>>

\* One statement of a running clean_file.
Step(t) ==
    \/ ReadInput(t)
    \/ CreateBackup(t)
    \/ CleanerReset(t)
    \/ CleanerExtract(t)
    \/ CleanerBody(t)
    \/ BuildResult(t)

\* The clock advances.  The program reads the clock in create_backup and when
\* a batch ends; time that passes elsewhere shows in the next such reading,
\* so the clock is advanced only just before one.
Tick ==
    /\ now < MaxClock
    /\ \/ \E t \in TaskIds : tasks[t].pc = "backup"
       \/ orch.pc = "await" /\ orch.folded = orch.first..orch.last
    /\ now' = now + 1
    /\ UNCHANGED <<level, backup, verify, backup_dir, cleaners, heap, fs, tasks, orch,
                   batch_result, returned, faults>>

\* The caller calls clean_file(file_path, output_path).
CallCleanFile(file_path, output_path) ==
    /\ orch.pc = "idle"
    /\ Len(tasks) < MaxCalls
    /\ tasks' = Append(tasks, NewTask(file_path, output_path, "main", "exists"))
    /\ orch' = [orch EXCEPT !.pc = "clean_file", !.entry = "clean_file"]
    /\ UNCHANGED <<level, backup, verify, backup_dir, cleaners, heap, fs, now,
                   batch_result, returned, faults>>

Next ==
    \/ \E p \in InputPaths : \E out \in {p, OutPath(p)} : CallCleanFile(p, out)
    \/ \E t \in TaskIds : Step(t)
    \/ Tick

Spec == Init /\ [][Next]_vars

----------------------------------------------------------------------------
(* clean_files and clean_folder: a ThreadPoolExecutor of max_workers       *)
(* threads runs the tasks; the calling thread folds the results.           *)

BatchTasks == orch.first..orch.last

Queued == {t \in BatchTasks : tasks[t].pc = "queued"}
Running == {t \in BatchTasks : tasks[t].pc \notin {"queued", "done", "raised"}}

\* executor.submit for every path, in order, and the fresh aggregate;
\* all_files is the set of files the entry point was given.
Dispatch(entry, paths, max_workers, all_files) ==
    /\ tasks' = tasks \o [i \in 1..Len(paths) |->
                             NewTask(paths[i], paths[i], "worker", "queued")]
    /\ orch' = [pc |-> "await", entry |-> entry, max_workers |-> max_workers,
                first |-> Len(tasks) + 1, last |-> Len(tasks) + Len(paths),
                folded |-> {}, start_time |-> now, all_files |-> all_files,
                outcome |-> "none", stopped |-> FALSE, pending |-> {}]
    /\ batch_result' = NewBatchCleaningResult

\* clean_files lines 217-225
CallCleanFiles(file_paths, max_workers) ==
    /\ orch.pc = "idle"
    /\ tasks = <<>>
    /\ Len(file_paths) <= MaxBatch
    /\ Dispatch("clean_files", file_paths, max_workers, Range(file_paths))
    /\ UNCHANGED <<level, backup, verify, backup_dir, cleaners, heap, fs, now, returned, faults>>

\* folder_path.glob('**/*' if recursive else '*'), the files of it; the
\* sub-directory a folder can have is its backup directory.
Glob(f, folder, recursive) ==
    {p \in DOMAIN f : \/ p.dir = folder
                      \/ recursive /\ p.dir = DefaultBackupDir(folder)}

FolderExists(f, folder) == \E p \in DOMAIN f : p.dir = folder

\* clean_folder lines 171-191
CallCleanFolder(folder_path, recursive, max_workers) ==
    /\ orch.pc = "idle"
    /\ FolderExists(fs, folder_path)
    /\ LET all_files == Glob(fs, folder_path, recursive)
           supported_files == {p \in all_files : is_supported_file(p)}
       IN /\ tasks = <<>>
          /\ Cardinality(supported_files) <= MaxBatch
          /\ Dispatch("clean_folder", Listed(PathOrder, supported_files), max_workers,
                      all_files)
    /\ UNCHANGED <<level, backup, verify, backup_dir, cleaners, heap, fs, now, returned, faults>>

\* clean_folder lines 175-177: no such folder, the empty aggregate is returned.
CallCleanFolderMissing(folder_path) ==
    /\ orch.pc = "idle"
    /\ ~FolderExists(fs, folder_path)
    /\ orch.outcome = "none"
    /\ batch_result' = NewBatchCleaningResult
    /\ orch' = [Idle EXCEPT !.entry = "clean_folder", !.outcome = "returned",
                            !.first = Len(tasks) + 1, !.last = Len(tasks)]
    /\ UNCHANGED <<level, backup, verify, backup_dir, cleaners, heap, fs, now, tasks,
                   returned, faults>>

\* A pool that starts the oldest queued task whether or not a worker is free.
StartUnbounded(t) ==
    /\ orch.pc \in {"await", "unwind"}
    /\ t \in Queued
    /\ \A u \in Queued : t <= u
    /\ tasks' = [tasks EXCEPT ![t].pc = "exists"]
    /\ UNCHANGED <<level, backup, verify, backup_dir, cleaners, heap, fs, now, orch,
                   batch_result, returned, faults>>

\* A free worker thread takes the oldest queued task.
Start(t) ==
    /\ orch.pc \in {"await", "unwind"}
    /\ t \in Queued
    /\ \A u \in Queued : t <= u
    /\ Cardinality(Running) < orch.max_workers
    /\ tasks' = [tasks EXCEPT ![t].pc = "exists"]
    /\ UNCHANGED <<level, backup, verify, backup_dir, cleaners, heap, fs, now, orch,
                   batch_result, returned, faults>>

\* as_completed yields a future whose task returned: lines 227-229 (193-195),
\* result = future.result(); batch_result.add_result(result).
Fold(t) ==
    /\ orch.pc = "await"
    /\ t \in BatchTasks \ orch.folded
    /\ tasks[t].pc = "done"
    /\ batch_result' = add_result(batch_result, t, The(tasks[t].result))
    /\ orch' = [orch EXCEPT !.folded = @ \cup {t}]
    /\ UNCHANGED <<level, backup, verify, backup_dir, cleaners, heap, fs, now, tasks,
                   returned, faults>>

\* as_completed yields a future whose task raised: future.result() raises it
\* again, and the exception leaves the with block.
FoldRaises(t) ==
    /\ orch.pc = "await"
    /\ t \in BatchTasks \ orch.folded
    /\ tasks[t].pc = "raised"
    /\ orch' = [orch EXCEPT !.pc = "unwind"]
    /\ UNCHANGED <<level, backup, verify, backup_dir, cleaners, heap, fs, now, tasks,
                   batch_result, returned, faults>>

\* Leaving the with block waits for every submitted task (shutdown(wait=True));
\* then the exception leaves the entry point, which returns nothing.
Propagate ==
    /\ orch.pc = "unwind"
    /\ \A t \in BatchTasks : tasks[t].pc \in {"done", "raised"}
    /\ orch' = [orch EXCEPT !.pc = "idle", !.outcome = "raised"]
    /\ UNCHANGED <<level, backup, verify, backup_dir, cleaners, heap, fs, now, tasks,
                   batch_result, returned, faults>>

\* Lines 231-233 (197-200): every future was yielded; total_time, and in
\* clean_folder skipped, are set and the aggregate is returned.
ReturnBatch ==
    /\ orch.pc = "await"
    /\ orch.folded = BatchTasks
    /\ batch_result' =
          [batch_result EXCEPT
              !.total_time = now - orch.start_time,
              !.skipped = IF orch.entry = "clean_folder"
                          THEN Cardinality(orch.all_files) - (orch.last - orch.first + 1)
                          ELSE @]
    /\ orch' = [orch EXCEPT !.pc = "idle", !.outcome = "returned"]
    /\ UNCHANGED <<level, backup, verify, backup_dir, cleaners, heap, fs, now, tasks,
                   returned, faults>>

\* The lists a caller hands clean_files.
BatchInputs ==
    {Listed(PathOrder, S) : S \in {T \in SUBSET BatchPaths : T # {} /\ Cardinality(T) <= MaxBatch}}

NextBatch ==
    \/ \E file_paths \in BatchInputs : \E w \in 1..MaxWorkers :
          CallCleanFiles(file_paths, w)
    \/ \E folder \in {"docs", "other"} : \E recursive \in BOOLEAN : \E w \in 1..MaxWorkers :
          CallCleanFolder(folder, recursive, w)
    \/ CallCleanFolderMissing("nowhere")
    \/ \E t \in TaskIds : Start(t)
    \/ \E t \in TaskIds : Step(t)
    \/ \E t \in TaskIds : Fold(t)
    \/ \E t \in TaskIds : FoldRaises(t)
    \/ Propagate
    \/ ReturnBatch

\* A batch is run with the default backup directory, at BASIC or DEEP (no
\* cleaner of the model tells PARANOID from DEEP).
InitBatch == Init /\ backup_dir = None /\ level \in {BASIC, DEEP}

SpecBatch == InitBatch /\ [][NextBatch]_vars

----------------------------------------------------------------------------
(* The scratch directory of OfficeCleaner.clean.  The try block is taken in *)
(* two steps: entering the with block of tempfile.TemporaryDirectory, and   *)
(* the work in it up to leaving it, by return or by exception.              *)

\* The names mkdtemp can draw.
TempDirs == {"tmp0", "tmp1"}

\* temp_path / "extracted"
Extracted(temp_dir) == Path(temp_dir, <<"e", "x", "t", "r", "a", "c", "t", "e", "d">>, <<>>)

\* tempfile.mkdtemp: the names under which it can create the directory, the
\* ones no directory has (it draws again when mkdir finds the name taken).
mkdtemp(f) == {d \in TempDirs : ~FolderExists(f, d)}

\* OfficeCleaner.clean lines 64-68: TemporaryDirectory() and
\* extract_path.mkdir(), a tree without parts yet.
EnterScratch(t) ==
    /\ tasks[t].pc = "body"
    /\ tasks[t].cleaner = Some("office")
    /\ \E d \in mkdtemp(fs) :
          /\ fs' = WriteFile(fs, Extracted(d), ZipContent(EmptyFn))
          /\ tasks' = [tasks EXCEPT ![t] = [@ EXCEPT !.pc = "scratch", !.temp_dir = Some(d)]]
    /\ UNCHANGED <<level, backup, verify, backup_dir, cleaners, heap, now, orch,
                   batch_result, returned, faults>>

\* A with block that leaves its directory behind.
LeaveScratchKeeping(t) ==
    /\ tasks[t].pc = "scratch"
    /\ CleanerTry(t, None)

\* OfficeCleaner.clean lines 70-107: the work in the with block and leaving
\* it, where TemporaryDirectory.__exit__ removes the directory.
LeaveScratch(t) ==
    /\ tasks[t].pc = "scratch"
    /\ CleanerTry(t, tasks[t].temp_dir)

StepInScratch(t) ==
    \/ ReadInput(t)
    \/ CleanerReset(t)
    \/ CleanerExtract(t)
    \/ tasks[t].cleaner # Some("office") /\ CleanerBody(t)
    \/ EnterScratch(t)
    \/ LeaveScratch(t)
    \/ BuildResult(t)

NextScratch ==
    \/ \E file_paths \in BatchInputs : \E w \in 1..MaxWorkers :
          CallCleanFiles(file_paths, w)
    \/ \E t \in TaskIds : Start(t)
    \/ \E t \in TaskIds : StepInScratch(t)
    \/ \E t \in TaskIds : Fold(t)
    \/ \E t \in TaskIds : FoldRaises(t)
    \/ Propagate
    \/ ReturnBatch

\* A batch without backups, verified or not.
InitScratch == InitBatch /\ backup = FALSE

SpecScratch == InitScratch /\ [][NextScratch]_vars

----------------------------------------------------------------------------
(* Stopping a batch.  clean_files and clean_folder take no stop signal; the *)
(* one a caller has is an exception delivered to the calling thread while  *)
(* it waits in as_completed (KeyboardInterrupt).  It leaves the with block *)
(* as any exception does.  `stopped` and `pending` record that it came and *)
(* which tasks no worker had started by then; no action reads them.        *)

Interrupt ==
    /\ orch.pc = "await"
    /\ orch' = [orch EXCEPT !.pc = "unwind", !.stopped = TRUE, !.pending = Queued]
    /\ UNCHANGED <<level, backup, verify, backup_dir, cleaners, heap, fs, now, tasks,
                   batch_result, returned, faults>>

\* A batch at level DEEP without backups, which may be stopped.
NextStop ==
    \/ NextBatch
    \/ Interrupt

InitStop == InitBatch /\ level = DEEP /\ backup = FALSE /\ verify = TRUE

SpecStop == InitStop /\ [][NextStop]_vars

\* A batch whose threads keep running: the pool's workers and the calling
\* thread take their next step whenever they have one.
Progress ==
    \/ \E t \in TaskIds : Start(t)
    \/ \E t \in TaskIds : Step(t)
    \/ \E t \in TaskIds : Fold(t)
    \/ \E t \in TaskIds : FoldRaises(t)
    \/ Propagate
    \/ ReturnBatch

SpecAwait == InitStop /\ [][NextBatch]_vars /\ WF_vars(Progress)

----------------------------------------------------------------------------
(* The document-archive cleaner on archives of every make-up: with or      *)
(* without each properties part and the manifest, cleaned in place or to   *)
(* another path, once and again.                                           *)

\* The archives: a manifest, when there is one, names every properties part
\* and the document.
Archives ==
    {LET props == Merge(core, Merge(app, custom))
         manifest == IF has_manifest
                     THEN MANIFEST :> ManifestBlob({PartName(n) :
                                         n \in DOMAIN props \cup {DOCUMENT}})
                     ELSE EmptyFn
     IN ZipContent(Merge(props, Merge(manifest, DOCUMENT :> ContentBlob("Hello", TRUE)))) :
        core \in {EmptyFn,
                  CORE :> XmlBlob("creator" :> "Alice"),
                  CORE :> XmlBlob(("creator" :> "Alice") @@ ("lastModifiedBy" :> "Bob")
                                  @@ ("title" :> " ") @@ ("revision" :> "3"))},
        app \in {EmptyFn, APP :> XmlBlob(("Company" :> "Acme") @@ ("Application" :> "Writer"))},
        custom \in {EmptyFn, CUSTOM :> XmlBlob("property" :> "secret")},
        has_manifest \in BOOLEAN}

InitOffice ==
    /\ level \in CleaningLevel
    /\ backup = FALSE
    /\ verify = FALSE
    /\ backup_dir = None
    /\ cleaners = [c \in Categories |-> NewCleaner(c)]
    /\ heap = InitialHeap
    /\ \E a \in Archives : fs = (DocA :> File(a, TRUE))
    /\ now = 0
    /\ tasks = <<>>
    /\ orch = Idle
    /\ batch_result = NewBatchCleaningResult
    /\ returned = <<>>
    /\ faults = MaxFaults

NextOffice ==
    \/ \E out \in {DocA, OutPath(DocA)} : CallCleanFile(DocA, out)
    \/ \E t \in TaskIds : Step(t)

SpecOffice == InitOffice /\ [][NextOffice]_vars

----------------------------------------------------------------------------
(* One file of each cleaned category, cleaned at every level, in place or  *)
(* to another path, once and again.                                        *)

Report == Path("docs", <<"r">>, Dot(PDF))
Song == Path("docs", <<"s">>, Dot(AudioTypes[1]))

\* The file systems of one file: a page document, an audio file, an archive
\* or a text file.
PolicyFiles ==
       {Report :> File(PdfContent(Merge(entries, "/Pages" :> OpaqueBlob("page"))), TRUE) :
            entries \in {EmptyFn,
                         "/Info" :> XmlBlob("/Author" :> "Alice"),
                         ("/Info" :> XmlBlob("/Author" :> "Alice"))
                            @@ ("/Metadata" :> OpaqueBlob("xmp"))
                            @@ ("/JavaScript" :> OpaqueBlob("js"))
                            @@ ("/PageLabels" :> OpaqueBlob("i"))}}
  \cup {Song :> File(AudioContent(Merge(tags, "frames" :> OpaqueBlob("pcm"))), TRUE) :
            tags \in {EmptyFn,
                      "tags" :> XmlBlob("COMM" :> "note"),
                      "tags" :> XmlBlob(("TPE1" :> "Alice") @@ ("COMM" :> "note"))}}
  \cup {DocA :> File(a, TRUE) : a \in {ArchiveA, ArchiveB}}
  \cup {Note :> File(RawContent(data), TRUE) : data \in {<<>>, <<"h", "i">>}}

InitPolicy ==
    /\ level \in CleaningLevel
    /\ backup = FALSE
    /\ verify \in BOOLEAN
    /\ backup_dir = None
    /\ cleaners = [c \in Categories |-> NewCleaner(c)]
    /\ heap = InitialHeap
    /\ fs \in PolicyFiles
    /\ now = 0
    /\ tasks = <<>>
    /\ orch = Idle
    /\ batch_result = NewBatchCleaningResult
    /\ returned = <<>>
    /\ faults = MaxFaults

NextPolicy ==
    \/ \E p \in {Report, Song, DocA, Note} : \E out \in {p, OutPath(p)} : CallCleanFile(p, out)
    \/ \E t \in TaskIds : Step(t)

SpecPolicy == InitPolicy /\ [][NextPolicy]_vars

----------------------------------------------------------------------------
(* Files of every extension: each supported one, in lower and in mixed     *)
(* case, and some that are none.  The content of each is two bytes that    *)
(* are no document, image, audio or video.                                 *)

Extensions ==
         {Dot(FileType[i]) : i \in DOMAIN FileType}
    \cup {<<".", "P", "D", "F">>, <<".", "D", "o", "c", "X">>, <<".", "J", "p", "G">>,
          <<".", "M", "P", "3">>, <<".", "m", "K", "v">>, <<".", "T", "X", "T">>,
          <<>>, <<".">>, <<".", "x", "y", "z">>, <<".", "p", "d", "f", "x">>,
          <<".", "p", "d">>, <<".", "X", "Y">>}

InitExt ==
    /\ level \in {BASIC, DEEP}
    /\ backup = FALSE
    /\ verify = FALSE
    /\ backup_dir = None
    /\ cleaners = [c \in Categories |-> NewCleaner(c)]
    /\ heap = InitialHeap
    /\ \E e \in Extensions : fs = (Path("docs", <<"f">>, e) :> File(RawContent(<<"h", "i">>), TRUE))
    /\ now = 0
    /\ tasks = <<>>
    /\ orch = Idle
    /\ batch_result = NewBatchCleaningResult
    /\ returned = <<>>
    /\ faults = 0

NextExt ==
    \/ \E p \in DOMAIN fs : \E out \in {p, OutPath(p)} : CallCleanFile(p, out)
    \/ \E t \in TaskIds : Step(t)

SpecExt == InitExt /\ [][NextExt]_vars

----------------------------------------------------------------------------
(* core/cleaner.py MetadataCleaner.__init__.  Before the object exists     *)
(* `orch` is the constructor call: its pc and the dependencies the         *)
(* environment lacks.  The dict display of line 48 constructs the six      *)
(* cleaners in order; the first constructor that raises ends it, and       *)
(* self.cleaners is never bound.                                           *)

Dependencies == {"pikepdf", "Pillow", "mutagen", "ffmpeg"}

\* What a cleaner's __init__ needs: PDFCleaner, ImageCleaner and
\* AudioCleaner raise ImportError, VideoCleaner._check_ffmpeg RuntimeError.
Requires(cat) ==
    CASE cat = "pdf" -> {"pikepdf"}
      [] cat = "image" -> {"Pillow"}
      [] cat = "audio" -> {"mutagen"}
      [] cat = "video" -> {"ffmpeg"}
      [] OTHER -> {}

\* An __init__ whose cleaners are constructed without a check of what they
\* need.
ConstructUnchecked ==
    /\ orch.pc = "new"
    /\ orch' = Idle
    /\ cleaners' = [c \in Categories |-> NewCleaner(c)]
    /\ heap' = InitialHeap
    /\ UNCHANGED <<level, backup, verify, backup_dir, fs, now, tasks, batch_result,
                   returned, faults>>

Construct ==
    /\ orch.pc = "new"
    /\ IF \E c \in Categories : Requires(c) \cap orch.missing # {}
       THEN /\ orch' = [orch EXCEPT !.pc = "failed"]
            /\ UNCHANGED <<cleaners, heap>>
       ELSE /\ orch' = Idle
            /\ cleaners' = [c \in Categories |-> NewCleaner(c)]
            /\ heap' = InitialHeap
    /\ UNCHANGED <<level, backup, verify, backup_dir, fs, now, tasks, batch_result,
                   returned, faults>>

InitConstruct ==
    /\ level = DEEP
    /\ backup = FALSE
    /\ verify = TRUE
    /\ backup_dir = None
    /\ cleaners = <<>>
    /\ heap = <<>>
    /\ fs = InitialFs
    /\ now = 0
    /\ tasks = <<>>
    /\ \E missing \in SUBSET Dependencies : orch = [pc |-> "new", missing |-> missing]
    /\ batch_result = NewBatchCleaningResult
    /\ returned = <<>>
    /\ faults = MaxFaults

NextConstruct ==
    \/ Construct
    \/ \E p \in {DocA, Missing} : CallCleanFile(p, p)
    \/ NextBatch

SpecConstruct == InitConstruct /\ [][NextConstruct]_vars

----------------------------------------------------------------------------
(* The fold alone: the results of a batch are given, every task has        *)
(* returned, and the loop over as_completed adds them in any order.        *)

MaxSize == 1

\* The values of a result that add_result reads.
FoldOutcomes ==
    {[success |-> ok, original_size |-> o, cleaned_size |-> c] :
        ok \in BOOLEAN, o \in 1..MaxSize, c \in 0..MaxSize}

\* A task of the batch that has returned a result with those values.
ReturnedTask(i, v) ==
    LET res == CleaningResult(PathOrder[i], v.success, v.original_size, v.cleaned_size,
                 Addr("result", i, "metadata_removed"), Addr("result", i, "errors"),
                 Addr("result", i, "warnings"), None, None, None)
    IN [NewTask(PathOrder[i], PathOrder[i], "worker", "done") EXCEPT
            !.original_size = v.original_size, !.success = v.success,
            !.result = Some(res), !.snap = Some(NoContents)]

InitFold ==
    /\ level = BASIC
    /\ backup = FALSE
    /\ verify = FALSE
    /\ backup_dir = None
    /\ cleaners = [c \in Categories |-> NewCleaner(c)]
    /\ heap = InitialHeap
    /\ fs = InitialFs
    /\ now = 0
    /\ \E n \in 1..MaxBatch : \E vs \in [1..n -> FoldOutcomes] :
          /\ tasks = [i \in 1..n |-> ReturnedTask(i, vs[i])]
          /\ orch = [Idle EXCEPT !.pc = "await", !.entry = "clean_files",
                                 !.max_workers = MaxWorkers, !.last = n,
                                 !.all_files = {PathOrder[i] : i \in 1..n}]
    /\ batch_result = NewBatchCleaningResult
    /\ returned = <<>>
    /\ faults = 0

NextFold ==
    \/ \E t \in TaskIds : Fold(t)
    \/ ReturnBatch

SpecFold == InitFold /\ [][NextFold]_vars

----------------------------------------------------------------------------
(* Properties.                                                             *)

\* The batch entry point has ended, by returning or by raising.
BatchEnded ==
    /\ orch.entry \in {"clean_files", "clean_folder"}
    /\ orch.pc = "idle"
    /\ orch.outcome # "none"

\* The file now at the output path of task t.
OutputNow(t) ==
    IF Exists(fs, tasks[t].output_path) THEN Some(fs[tasks[t].output_path]) ELSE None

\* The file now at the input path of task t.
InputNow(t) ==
    IF Exists(fs, tasks[t].file_path) THEN Some(fs[tasks[t].file_path]) ELSE None

\* C1: an exception raised inside one file's task of clean_folder or
\* clean_files is turned into a failed CleaningResult for that file: when
\* the batch has ended it has returned its aggregate, every task has a
\* result, and the aggregate holds the result of every task.
C1_ExceptionIsolated ==
    BatchEnded =>
        /\ orch.outcome = "returned"
        /\ \A t \in BatchTasks : IsSome(tasks[t].result)
        /\ Range(batch_result.results) = BatchTasks

\* C2: once clean_file has returned a CleaningResult, what the result says
\* (metadata_removed, errors, warnings) stays what it said when it was
\* returned, whatever is cleaned on the same MetadataCleaner afterwards.
C2_ResultImmutable ==
    \A t \in TaskIds :
        IsSome(tasks[t].result) =>
            Contents(heap, The(tasks[t].result)) = The(tasks[t].snap)

\* C3: with max_workers >= 2, a result returned by a task of the batch holds
\* exactly what the cleaning of its own file produced: the metadata found in
\* that file and the errors and warnings raised for it.
C3_TasksShareOnlyAggregate ==
    \A t \in TaskIds :
        (tasks[t].thread = "worker" /\ orch.max_workers >= 2 /\ IsSome(tasks[t].snap)) =>
            The(tasks[t].snap) = tasks[t].own

\* C4: when OfficeCleaner.clean has returned False, the file at output_path
\* is what it was before the call (absent if it was absent).
C4_FailedCleanKeepsOutput ==
    \A t \in TaskIds :
        (tasks[t].cleaner = Some("office") /\ tasks[t].pc = "post" /\ ~tasks[t].success) =>
            OutputNow(t) = tasks[t].out_before

\* C5: with backup requested, the cleaner is invoked only after a complete
\* backup was made; a clean_file whose create_backup failed returns a failed
\* result without invoking the cleaner, and leaves the input file as it was.
C5_BackupFailureFailsClosed ==
    \A t \in TaskIds :
        /\ (backup /\ tasks[t].invoked) => tasks[t].backed_up
        /\ (tasks[t].backup_tried /\ ~tasks[t].backed_up) =>
              /\ tasks[t].pc = "done"
              /\ ~The(tasks[t].result).success
              /\ ~tasks[t].invoked
              /\ t = Len(tasks) => InputNow(t) = tasks[t].before

C5_Witness ==
    \E t \in TaskIds :
        /\ tasks[t].backup_tried
        /\ ~tasks[t].backed_up
        /\ tasks[t].pc = "done"
        /\ tasks[t].file_path = DocA

\* C6: two calls of create_backup, for the same file or for different files,
\* never produce the same backup path.
C6_BackupPathsDistinct ==
    \A t, u \in TaskIds :
        (t # u /\ IsSome(tasks[t].backup_path) /\ IsSome(tasks[u].backup_path)) =>
            tasks[t].backup_path # tasks[u].backup_path

\* C7: a batch given N files of supported and M files of unsupported
\* extension returns total_files = N + M, skipped = M and
\* successful + failed = N.
C7_BatchCounts ==
    (BatchEnded /\ orch.outcome = "returned") =>
        LET N == Cardinality({p \in orch.all_files : is_supported_file(p)})
            M == Cardinality({p \in orch.all_files : ~is_supported_file(p)})
        IN /\ batch_result.total_files = N + M
           /\ batch_result.skipped = M
           /\ batch_result.successful + batch_result.failed = N

\* The bytes task t's cleaning took off its file.
Reduction(t) ==
    ContentSize(The(tasks[t].before).content) - get_file_size(fs, tasks[t].output_path)

\* Every file of the batch was cleaned successfully.
AllSucceeded ==
    \A t \in BatchTasks : IsSome(tasks[t].result) /\ The(tasks[t].result).success

\* C8: clean_files with max_workers >= 2 over N files that are all cleaned
\* successfully returns total_files = N, successful = N and
\* total_size_reduction = the sum of the N files' reductions.
C8_ParallelTotals ==
    (orch.entry = "clean_files" /\ orch.outcome = "returned" /\ orch.max_workers >= 2
        /\ AllSucceeded) =>
        LET N == Cardinality(orch.all_files)
        IN /\ batch_result.total_files = N
           /\ batch_result.successful = N
           /\ batch_result.total_size_reduction = SumOver(BatchTasks, [t \in BatchTasks |-> Reduction(t)])

C8_Witness ==
    /\ orch.entry = "clean_files"
    /\ orch.outcome = "returned"
    /\ orch.max_workers >= 2
    /\ AllSucceeded
    /\ batch_result.total_files = MaxBatch
    /\ batch_result.total_size_reduction > 0

\* The counts and the sum of an aggregate.
Totals(b) == <<b.total_files, b.successful, b.failed, b.total_size_reduction>>

\* The aggregate of the folded tasks 1..n, added in ascending order.
RECURSIVE FoldAscending(_)
FoldAscending(n) ==
    IF n = 0 THEN NewBatchCleaningResult
    ELSE IF n \in orch.folded
         THEN add_result(FoldAscending(n - 1), n, The(tasks[n].result))
         ELSE FoldAscending(n - 1)

\* C9: in whatever order the results were added, the counts and the sum of
\* the aggregate are those of adding the same results in ascending order,
\* and the aggregate holds each added result once.
C9_FoldOrderIndependent ==
    /\ Totals(batch_result) = Totals(FoldAscending(Len(tasks)))
    /\ Range(batch_result.results) = orch.folded
    /\ Len(batch_result.results) = Cardinality(orch.folded)

C9_Witness ==
    /\ orch.outcome = "returned"
    /\ Len(batch_result.results) = MaxBatch
    /\ batch_result.results[1] > batch_result.results[2]
    /\ batch_result.successful >= 2
    /\ batch_result.failed >= 1
    /\ \E t, u \in TaskIds :
          /\ The(tasks[t].result).success /\ The(tasks[u].result).success
          /\ size_reduction(The(tasks[t].result)) # size_reduction(The(tasks[u].result))

\* A step of the thread that called clean_files or clean_folder.
OrchestratorStep ==
    \/ \E t \in TaskIds : Fold(t)
    \/ ReturnBatch
    \/ orch.pc = "idle" /\ orch'.entry \in {"clean_files", "clean_folder"}

\* C10: the aggregate is changed by steps of the calling thread only, never
\* by a worker thread, and no increment or append is lost: while the batch
\* runs the aggregate counts and lists exactly the results added so far.
C10_OnlyOrchestratorMutates ==
    /\ [](orch.entry \in {"clean_files", "clean_folder"} =>
            /\ batch_result.total_files = Cardinality(orch.folded)
            /\ Len(batch_result.results) = Cardinality(orch.folded)
            /\ Range(batch_result.results) = orch.folded
            /\ batch_result.successful + batch_result.failed = Cardinality(orch.folded)
            /\ batch_result.successful =
                  Cardinality({t \in orch.folded : The(tasks[t].result).success}))
    /\ [][batch_result' # batch_result => OrchestratorStep]_vars

C10_Witness ==
    /\ orch.pc = "await"
    /\ Cardinality(Running) >= 2
    /\ batch_result.total_files >= 1
    /\ \E t \in Running : tasks[t].pc = "post"

\* C11: once the stop signal has been raised, no task that had not started
\* by then is ever run, and when the batch has ended it has returned an
\* aggregate that counts those tasks in skipped and not in failed.
C11_StopSkipsPending ==
    orch.stopped =>
        /\ \A t \in orch.pending : tasks[t].pc = "queued"
        /\ BatchEnded =>
              /\ orch.outcome = "returned"
              /\ batch_result.skipped = Cardinality(orch.pending)
              /\ batch_result.failed = Cardinality({t \in orch.folded : ~The(tasks[t].result).success})

\* Every entry of the manifest of the archive names a part of the archive.
ManifestConsistent(parts) ==
    /\ MANIFEST \in DOMAIN parts
    /\ \A o \in parts[MANIFEST].overrides : \E n \in DOMAIN parts : PartName(n) = o

\* The office cleaner's clean() has just returned True to task t, whose
\* input was an archive.
OfficeCleaned(t) ==
    /\ tasks[t].cleaner = Some("office")
    /\ tasks[t].pc = "post"
    /\ tasks[t].success
    /\ The(tasks[t].before).content.kind = "zip"

\* C12: after a successful clean of an archive whose manifest was
\* consistent, every manifest entry of the output names a part of the
\* output, and at DEEP and PARANOID no properties part is in the output
\* nor named by its manifest.
C12_ManifestConsistent ==
    \A t \in TaskIds :
        (OfficeCleaned(t) /\ ManifestConsistent(The(tasks[t].before).content.parts)) =>
            LET out == fs[tasks[t].output_path].content.parts
            IN /\ ManifestConsistent(out)
               /\ level # BASIC =>
                     \A m \in Range(metadata_files) :
                         m \notin DOMAIN out /\ PartName(m) \notin out[MANIFEST].overrides

\* Task t is the latest call; it has returned a successful result for an
\* archive whose core-properties part said creator = "Alice".
CleanedAlice(t) ==
    /\ t = Len(tasks)
    /\ tasks[t].pc = "done"
    /\ The(tasks[t].result).success
    /\ The(tasks[t].before).content.kind = "zip"
    /\ CORE \in DOMAIN The(tasks[t].before).content.parts
    /\ "creator" \in DOMAIN The(tasks[t].before).content.parts[CORE].fields
    /\ The(tasks[t].before).content.parts[CORE].fields["creator"] = "Alice"

\* C13: cleaning at BASIC an archive whose core-properties part has
\* creator = "Alice" gives a result with metadata_removed["Core.creator"] =
\* "Alice"; the output still holds every properties part the input held,
\* and its core-properties part has the creator blanked.
C13_BasicBlanksCreator ==
    \A t \in TaskIds :
        (level = BASIC /\ CleanedAlice(t)) =>
            LET removed == Contents(heap, The(tasks[t].result)).metadata_removed
                out == fs[tasks[t].output_path].content.parts
            IN /\ <<"Core", "creator">> \in DOMAIN removed
               /\ removed[<<"Core", "creator">>] = "Alice"
               /\ \A m \in Range(metadata_files) :
                     m \in DOMAIN The(tasks[t].before).content.parts => m \in DOMAIN out
               /\ out[CORE].fields["creator"] = ""

C13_Witness ==
    \E t \in TaskIds :
        /\ level = BASIC
        /\ CleanedAlice(t)
        /\ DOMAIN The(tasks[t].before).content.parts = {CORE, APP, CUSTOM, MANIFEST, DOCUMENT}

\* What a clean took away: the parts of `before` that `after` lacks, and the
\* fields of `before` whose value `after` lacks or holds blank.
Stripped(before, after) ==
    LET keys == UNION {DOMAIN before[m].fields : m \in DOMAIN before}
        fields == {e \in (DOMAIN before) \X keys :
                      /\ e[2] \in DOMAIN before[e[1]].fields
                      /\ before[e[1]].fields[e[2]] # ""
                      /\ \/ e[1] \notin DOMAIN after
                         \/ e[2] \notin DOMAIN after[e[1]].fields
                         \/ after[e[1]].fields[e[2]] = ""}
    IN {<<n, "">> : n \in DOMAIN before \ DOMAIN after} \cup fields

Rank(lvl) == CASE lvl = BASIC -> 1 [] lvl = DEEP -> 2 [] lvl = PARANOID -> 3

\* The cleaner's clean() has just returned True to task t.
Cleaned(t) ==
    /\ tasks[t].pc = "post"
    /\ tasks[t].success
    /\ tasks[t].before # None

\* What the cleaner of task t takes away from the task's input at lvl when
\* nothing fails.
StrippedAt(t, lvl) ==
    LET p == tasks[t].file_path
        q == tasks[t].output_path
        o == CleanerClean(The(tasks[t].cleaner), lvl, (p :> The(tasks[t].before)), p, q,
                          IoOk, IoOk)
    IN Stripped(The(tasks[t].before).content.parts, o.fs[q].content.parts)

CleanedAgain(t) ==
    /\ t > 1
    /\ tasks[t].pc = "done"
    /\ The(tasks[t].result).success
    /\ tasks[t - 1].pc = "done"
    /\ The(tasks[t - 1].result).success
    /\ tasks[t].file_path = tasks[t - 1].output_path

\* C15: the result of cleaning again, at the same level, a file that was
\* already cleaned has metadata_count = 0.
C15_SecondCleanRemovesNothing ==
    \A t \in TaskIds :
        CleanedAgain(t) => metadata_count(heap, The(tasks[t].result)) = 0

\* C16: after a successful clean of an archive, every part of the input
\* that is not a properties part is in the output as it was, except, at
\* DEEP and PARANOID, the content parts whose revision marks are stripped
\* and the manifest; at BASIC no such part, the manifest included, differs.
C16_OtherPartsUntouched ==
    \A t \in TaskIds :
        OfficeCleaned(t) =>
            LET before == The(tasks[t].before).content.parts
                out == fs[tasks[t].output_path].content.parts
                exempt == IF level = BASIC THEN {}
                          ELSE ContentFiles(tasks[t].file_path.suffix) \cup {MANIFEST}
            IN \A n \in DOMAIN before \ (Range(metadata_files) \cup exempt) :
                  n \in DOMAIN out /\ out[n] = before[n]

\* C17: the backup a returned result names exists and holds what the input
\* file held when the call began, then and ever after.
C17_BackupHoldsOriginal ==
    \A t \in TaskIds :
        (tasks[t].pc = "done" /\ The(tasks[t].result).backup_path # None) =>
            LET backup_path == The(The(tasks[t].result).backup_path)
            IN /\ Exists(fs, backup_path)
               /\ fs[backup_path].content = The(tasks[t].before).content

\* C18: a call on a path that did not exist has returned a failed result
\* whose error is 'File not found', without a backup attempt and without a
\* cleaner's clean(), whatever backup and verify are.
C18_MissingFileFails ==
    \A t \in TaskIds :
        (tasks[t].pc \in {"done", "raised"} /\ tasks[t].before = None) =>
            /\ tasks[t].pc = "done"
            /\ ~The(tasks[t].result).success
            /\ Contents(heap, The(tasks[t].result)).errors = <<"File not found">>
            /\ The(tasks[t].result).backup_path = None
            /\ ~tasks[t].backup_tried
            /\ ~tasks[t].invoked

C18_Witness ==
    \E t \in TaskIds :
        /\ tasks[t].pc = "done"
        /\ tasks[t].before = None
        /\ tasks[t].file_path = Missing
        /\ backup /\ verify

\* C19: a call on an existing file whose extension is no supported type has
\* returned a failed result whose first error is 'Unsupported file type',
\* without a backup attempt and without a cleaner's clean(), and the file
\* is as it was.
C19_UnsupportedFileFails ==
    \A t \in TaskIds :
        (/\ tasks[t].pc \in {"done", "raised"}
         /\ tasks[t].before # None
         /\ from_extension(tasks[t].file_path.suffix) = UNKNOWN) =>
            /\ tasks[t].pc = "done"
            /\ ~The(tasks[t].result).success
            /\ Contents(heap, The(tasks[t].result)).errors # <<>>
            /\ Head(Contents(heap, The(tasks[t].result)).errors) = "Unsupported file type"
            /\ The(tasks[t].result).backup_path = None
            /\ ~tasks[t].backup_tried
            /\ ~tasks[t].invoked
            /\ InputNow(t) = tasks[t].before

C19_Witness ==
    \E t \in TaskIds :
        /\ tasks[t].pc = "done"
        /\ tasks[t].file_path = Unsupported
        /\ tasks[t].before # None
        /\ backup /\ verify

\* The capability groups a file type belongs to.
Groups(ft) ==
    {g \in {"document", "image", "audio", "video"} :
        \/ g = "document" /\ is_document(ft)
        \/ g = "image" /\ is_image(ft)
        \/ g = "audio" /\ is_audio(ft)
        \/ g = "video" /\ is_video(ft)}

\* C20: for the extension of every file handed to clean_file,
\* from_extension gives a member of FileType, the same for the extension
\* in lower case, without its dot and with one more dot; a supported
\* extension gives the type of that name, which is in exactly one
\* capability group, and every other extension gives UNKNOWN, which is in
\* none.  clean_file goes by it: it rejects the file as unsupported exactly
\* when the type is UNKNOWN.
C20_FromExtension ==
    \A t \in TaskIds :
        LET ext == tasks[t].file_path.suffix
            ft == from_extension(ext)
            name == LStripDot(Lower(ext))
        IN /\ ft \in Range(FileType)
           /\ from_extension(Lower(ext)) = ft
           /\ from_extension(LStripDot(ext)) = ft
           /\ from_extension(<<".">> \o ext) = ft
           /\ IF name \in Range(FileType) \ {UNKNOWN}
              THEN ft = name /\ Cardinality(Groups(ft)) = 1
              ELSE ft = UNKNOWN /\ Groups(ft) = {}
           /\ tasks[t].pc # "exists" =>
                 (tasks[t].own.errors = <<"Unsupported file type">> <=> ft = UNKNOWN)

C20_Witness ==
    \E t \in TaskIds :
        /\ tasks[t].file_path.suffix = <<".", "J", "p", "G">>
        /\ tasks[t].cleaner = Some("image")
        /\ from_extension(tasks[t].file_path.suffix) = ImageTypes[2]

\* Task t is the latest call; the cleaner's clean() returned True to it, it
\* has ended, verification is on and the shallow integrity check of its
\* output fails.
VerificationFailed(t) ==
    /\ t = Len(tasks)
    /\ tasks[t].pc \in {"done", "raised"}
    /\ tasks[t].success
    /\ verify
    /\ ~verify_file_integrity(fs, tasks[t].file_path, tasks[t].output_path)

\* C21: when verification is on, the cleaner succeeded and the integrity
\* check failed, clean_file has returned a result with success = True whose
\* warnings hold 'File integrity verification failed' and whose errors do
\* not.
C21_VerificationWarns ==
    \A t \in TaskIds :
        VerificationFailed(t) =>
            /\ tasks[t].pc = "done"
            /\ The(tasks[t].result).success
            /\ "File integrity verification failed" \in Range(The(tasks[t].snap).warnings)
            /\ "File integrity verification failed" \notin Range(The(tasks[t].snap).errors)

C21_Witness ==
    \E t \in TaskIds :
        /\ VerificationFailed(t)
        /\ tasks[t].pc = "done"
        /\ Exists(fs, tasks[t].output_path)
        /\ get_file_size(fs, tasks[t].output_path) = 0

\* No entry point has started and no file has been touched.
NothingStarted ==
    /\ tasks = <<>>
    /\ returned = <<>>
    /\ fs = InitialFs
    /\ batch_result = NewBatchCleaningResult

\* C22: while the object is being constructed nothing has started; when a
\* dependency of any cleaner is missing the construction fails, and after a
\* failed construction nothing ever starts.
C22_ConstructionFailsFirst ==
    /\ [](orch.pc \in {"new", "failed"} => NothingStarted)
    /\ [][(orch.pc = "new" /\ orch.missing # {}) => orch'.pc = "failed"]_vars
    /\ [][orch.pc = "failed" => orch'.pc = "failed"]_vars

C22_Witness ==
    /\ orch.pc = "failed"
    /\ orch.missing = {"ffmpeg"}
    /\ NothingStarted

\* C23: a failed result returned by clean_file held an error when it was
\* returned, and every failed result of a returned aggregate holds an error
\* when the aggregate is returned.
C23_FailureCarriesError ==
    /\ \A t \in TaskIds :
          (tasks[t].pc = "done" /\ ~The(tasks[t].result).success) =>
              The(tasks[t].snap).errors # <<>>
    /\ (BatchEnded /\ orch.outcome = "returned") =>
          \A t \in orch.folded :
              ~The(tasks[t].result).success =>
                  Contents(heap, The(tasks[t].result)).errors # <<>>

\* The element names of the identity and the timestamp domains, as the
\* properties parts write them.
IdentityFields == {"creator", "lastModifiedBy", "Company", "Manager"}
TimestampFields == {"created", "modified", "lastPrinted"}

\* C24: after a successful clean of an archive at BASIC, every identity
\* field and every timestamp field of a properties part of the output has
\* empty text.
C24_BasicBlanksIdentity ==
    \A t \in TaskIds :
        (level = BASIC /\ OfficeCleaned(t)) =>
            LET out == fs[tasks[t].output_path].content.parts
            IN \A n \in Range(metadata_files) \cap DOMAIN out :
                  \A k \in DOMAIN out[n].fields \cap (IdentityFields \cup TimestampFields) :
                      out[n].fields[k] = ""

\* C25: after a successful clean of an archive at BASIC, every field of a
\* properties part that is no identity and no timestamp field has the
\* value it had, and the manifest has every entry it had.
C25_BasicKeepsOtherFields ==
    \A t \in TaskIds :
        (level = BASIC /\ OfficeCleaned(t)) =>
            LET before == The(tasks[t].before).content.parts
                out == fs[tasks[t].output_path].content.parts
            IN /\ \A n \in Range(metadata_files) \cap DOMAIN before :
                     /\ n \in DOMAIN out
                     /\ \A k \in DOMAIN before[n].fields \ (IdentityFields \cup TimestampFields) :
                           /\ k \in DOMAIN out[n].fields
                           /\ out[n].fields[k] = before[n].fields[k]
               /\ MANIFEST \in DOMAIN before =>
                     /\ MANIFEST \in DOMAIN out
                     /\ before[MANIFEST].overrides \subseteq out[MANIFEST].overrides

\* C26: once clean_files has submitted its tasks, it eventually returns an
\* aggregate into which the result of every submitted task has been
\* folded, each once.
C26_BatchReturnsAllFolded ==
    (orch.pc = "await" /\ orch.entry = "clean_files") ~>
        (/\ BatchEnded
         /\ orch.outcome = "returned"
         /\ orch.folded = BatchTasks
         /\ \A t \in BatchTasks : tasks[t].pc = "done"
         /\ batch_result.total_files = Cardinality(BatchTasks))

\* C27: while a batch runs, the clean_file tasks of it that have started and
\* not yet finished are never more than max_workers, the others that have
\* not finished being still queued.
C27_AtMostMaxWorkers ==
    orch.pc \in {"await", "unwind"} => Cardinality(Running) <= orch.max_workers

C27_Witness ==
    /\ orch.pc = "await"
    /\ orch.max_workers = MaxWorkers
    /\ Cardinality(Running) = orch.max_workers
    /\ Queued # {}

\* C28: every invocation of the office cleaner that is in its with block has
\* a scratch directory, and every scratch directory that exists is the one
\* of exactly one invocation in its with block: no two invocations share
\* one, and none outlives the invocation, however it returns.
C28_OwnScratchRemoved ==
    /\ \A t \in TaskIds :
          tasks[t].pc = "scratch" => FolderExists(fs, The(tasks[t].temp_dir))
    /\ \A d \in TempDirs :
          FolderExists(fs, d) =>
              Cardinality({t \in TaskIds : /\ tasks[t].pc = "scratch"
                                          /\ tasks[t].temp_dir = Some(d)}) = 1

C28_Witness ==
    \E t, u, v \in TaskIds :
        /\ tasks[t].pc = "scratch"
        /\ tasks[u].pc = "scratch"
        /\ t # u
        /\ tasks[v].pc = "done"
        /\ tasks[v].temp_dir # None
        /\ ~tasks[v].success

\* C29: a clean_file whose output_path is not its file_path leaves the input
\* file as it was when the call began, while it runs and once it has
\* returned, whatever the category and the level, and whether it succeeds
\* or fails.
C29_InputUntouched ==
    \A t \in TaskIds :
        (t = Len(tasks) /\ tasks[t].output_path # tasks[t].file_path) =>
            InputNow(t) = tasks[t].before

\* C30: for every file clean_file is called on, is_supported_file implies
\* that _get_cleaner gives one of the six cleaners, _get_cleaner gives none
\* only when the type is UNKNOWN, a call that got past the support check has
\* its cleaner, and no call reports 'No cleaner available'.
C30_DispatchTotal ==
    \A t \in TaskIds :
        LET file_path == tasks[t].file_path
            c == _get_cleaner(file_path)
        IN /\ is_supported_file(file_path) => c \in {Some(cat) : cat \in Categories}
           /\ c = None => from_extension(file_path.suffix) = UNKNOWN
           /\ tasks[t].pc \in {"extract", "body", "post"} => tasks[t].cleaner = c /\ c # None
           /\ "No cleaner available" \notin Range(tasks[t].own.errors)
           /\ (tasks[t].pc = "done" /\ is_supported_file(file_path)) => tasks[t].invoked

C30_Witness ==
    \E t \in TaskIds :
        /\ tasks[t].file_path.suffix = <<".", "m", "K", "v">>
        /\ is_supported_file(tasks[t].file_path)
        /\ tasks[t].cleaner = Some("video")
        /\ tasks[t].pc = "done"

====
